---- MODULE Spec2Model ----
(***************************************************************************)
(* Karere backend: the progressive history reconciler (handleHistorySet), *)
(* the live event processor (handleMessagesUpsert), handleSendMessage and *)
(* the SQLite store of database.js they write to.                         *)
(*                                                                         *)
(* Every `await` of an async handler is a point where another handler may *)
(* run, so handleHistorySet is modelled one store operation per step.     *)
(* One step = the pending store operation is executed, then the           *)
(* synchronous code up to the next store operation runs.                  *)
(***************************************************************************)
EXTENDS Integers, Sequences, FiniteSets, TLC

\* ------------------------------------------------------------------ bounds
MaxDeliveries == 2      \* bulk deliveries started in one behaviour
MaxEvents == 1          \* live upsert events and send_message commands in one behaviour
MaxTicks == 2           \* advances of the wall clock
MaxFaults == 1          \* store operations that fail in one behaviour
MaxChats == 2           \* conversations in one delivery (SpecBatch)
MaxChatsSeq == 1        \* conversations in one delivery (Spec)
MaxMsgs == 2            \* messages carried by one delivery
MaxMsgsBatch == 1       \* messages of one conversation of a delivery (SpecBatch)
MaxCommands == 2        \* consumer commands in one behaviour (SpecGateway)
MaxTimers == 2          \* connection attempts pending at one time
MaxGatewayDeliveries == 1       \* bulk deliveries in one behaviour (SpecGateway)
MaxSeconds == 40        \* largest instant (epoch seconds) given to getMessageTimestamp alone
MaxStoreCalls == 4      \* store methods called in one behaviour (SpecStore)
MaxMsgsSave == 3        \* messages of the conversation of a delivery (SpecSave)
MaxLiveMsgs == 2        \* messages carried by one live upsert event (SpecLive)
MaxWaits == 1           \* calls of waitForInitialHistory in one behaviour (SpecWait)

\* ------------------------------------------------------------- constants
NULL == -1              \* SQL NULL / JS null, undefined in a numeric column
NullStr == "<null>"     \* SQL NULL / JS null in a text column
MsPerSecond == 1000     \* `timestamp * 1000`: epoch seconds to milliseconds
StartTime == 2 * MsPerSecond    \* Date.now() when the model starts (epoch ms)
TickMs == MsPerSecond           \* one advance of the wall clock (epoch ms)
DefaultLimit == 50      \* `limit = 50` of getChats and of get_message_history
maxWaitTime == 30000    \* waitForInitialHistory: `const maxWaitTime = 30000`
checkInterval == 1000   \* waitForInitialHistory: `const checkInterval = 1000`
SyncContactsLimit == 200        \* database.getChats(200) of handleSyncContacts
MAX_RECONNECT_ATTEMPTS == 5
RECONNECT_DELAY == 5000                 \* ms

\* mutant of LOGOUT_RECONNECT_DELAY: a logout waits as long as a lost connection
LogoutDelayAsBackoff == RECONNECT_DELAY
LOGOUT_RECONNECT_DELAY == 2000          \* ms, setTimeout(..., 2000) after a logout

Jids == {"A", "B"}            \* conversations of Spec
BatchJids == {"A", "B", "C"}  \* conversations of SpecBatch
Slots == {1, 2}

\* JS truthiness of a number-or-null (0, null, undefined are falsy)
Truthy(x) == x # NULL /\ x # 0
\* JS truthiness of a string-or-null ('' and null are falsy)
TruthyStr(s) == s # NullStr /\ s # ""
\* a || b on numbers / on strings
OrElse(a, b) == IF Truthy(a) THEN a ELSE b
OrElseStr(a, b) == IF TruthyStr(a) THEN a ELSE b

\* ---------------------------------------------------------- raw messages
\* A raw upstream message.  nested = TRUE is the history wrapper
\* {message: {key, messageTimestamp, message: {...}}}: key and timestamp
\* live one level down and msg.key, msg.messageTimestamp are undefined.
\* fmt is the representation of the timestamp: "none" (absent), "num"
\* (epoch seconds), "str" (decimal string), "long" ({low, high} words, of
\* which only high = 0, low = ts is representable here).
\* kind is the populated field of the message body ("none": no body).
RawMsg(id, ts, fmt, nested, kind, fromMe, pushName) ==
    [id |-> id, ts |-> ts, fmt |-> fmt, nested |-> nested, kind |-> kind,
     fromMe |-> fromMe, text |-> "hi", pushName |-> pushName]

\* A messageTimestamp value as the upstream delivers it: undefined, a
\* number, a decimal string (kept as its digits) or a Long {low, high}.
Undefined == [type |-> "undefined", n |-> 0, digits |-> <<>>, low |-> 0, high |-> 0]
Num(n) == [Undefined EXCEPT !.type = "number", !.n = n]
Str(digits) == [Undefined EXCEPT !.type = "string", !.digits = digits]
Long(low, high) == [Undefined EXCEPT !.type = "object", !.low = low, !.high = high]

\* String(n) for a natural number: its decimal digits, most significant first
RECURSIVE ToDigits(_)
ToDigits(n) == IF n < 10 THEN <<n>> ELSE Append(ToDigits(n \div 10), n % 10)

\* parseInt(str) of a string of decimal digits
RECURSIVE parseInt(_)
parseInt(digits) ==
    IF digits = <<>> THEN 0
    ELSE parseInt(SubSeq(digits, 1, Len(digits) - 1)) * 10 + digits[Len(digits)]

\* `!timestamp` is false: undefined, 0 and '' are falsy, every object is truthy
TruthyTimestamp(v) ==
    CASE v.type = "undefined" -> FALSE
      [] v.type = "number" -> v.n # 0
      [] v.type = "string" -> v.digits # <<>>
      [] v.type = "object" -> TRUE

\* (high >>> 0) * 0x100000000 + (low >>> 0), for the words that fit the
\* checker's integers: high = 0 and low >= 0, where >>> 0 changes nothing
LongToNumber(low, high) == IF high = 0 /\ low >= 0 THEN low ELSE NULL

\* getMessageTimestamp(msg), lines 1715-1747, on the two fields it reads:
\* top = msg.messageTimestamp and inner = msg.message.messageTimestamp
\* (undefined when msg.message is absent or has no such field)
NormalizeTimestamp(top, inner, now) ==
    LET timestamp == IF TruthyTimestamp(inner) THEN inner ELSE top
    IN IF ~TruthyTimestamp(timestamp) THEN now
       ELSE CASE timestamp.type = "object" ->
                    LongToNumber(timestamp.low, timestamp.high) * MsPerSecond
              [] timestamp.type = "number" -> timestamp.n * MsPerSecond
              [] timestamp.type = "string" -> parseInt(timestamp.digits) * MsPerSecond

\* the messageTimestamp value of a raw message, in the format it came in
TimestampValue(ts, fmt) ==
    CASE fmt = "num" -> Num(ts)
      [] fmt = "str" -> Str(ToDigits(ts))
      [] fmt = "long" -> Long(ts, 0)
      [] OTHER -> Undefined

\* getMessageTimestamp: normalised epoch milliseconds, Date.now() when the
\* message has no usable timestamp
getMessageTimestamp(msg, now) ==
    IF msg.nested
    THEN NormalizeTimestamp(Undefined, TimestampValue(msg.ts, msg.fmt), now)
    ELSE NormalizeTimestamp(TimestampValue(msg.ts, msg.fmt), Undefined, now)

\* msg.messageTimestamp * 1000 as the live handler and the backfill compute
\* it: only the top-level field, NaN-free formats only ("num", "str")
TopLevelTimestampMs(msg) ==
    IF msg.nested \/ msg.fmt = "none" \/ msg.fmt = "long" THEN NULL ELSE msg.ts * MsPerSecond

messageTypes ==
    [conversation |-> "text", extendedTextMessage |-> "text",
     imageMessage |-> "image", videoMessage |-> "video",
     audioMessage |-> "audio", documentMessage |-> "document",
     stickerMessage |-> "sticker", locationMessage |-> "location",
     liveLocationMessage |-> "live_location", contactMessage |-> "contact",
     contactsArrayMessage |-> "contacts", groupInviteMessage |-> "group_invite",
     buttonsMessage |-> "buttons", templateMessage |-> "template",
     listMessage |-> "list", reactionMessage |-> "reaction",
     pollCreationMessage |-> "poll", pollUpdateMessage |-> "poll_update"]

getMessageType(msg) ==
    IF msg.kind = "none" THEN "text"
    ELSE IF msg.kind \in DOMAIN messageTypes THEN messageTypes[msg.kind]
    ELSE "unknown"

getDisplayMessage(msg) ==
    CASE msg.kind = "none" -> ""
      [] msg.kind \in {"conversation", "extendedTextMessage"} -> msg.text
      [] msg.kind = "imageMessage" -> "[Image]"
      [] msg.kind = "videoMessage" -> "[Video]"
      [] msg.kind = "audioMessage" -> "[Audio]"
      [] msg.kind = "documentMessage" -> "[Document]"
      [] msg.kind = "stickerMessage" -> "[Sticker]"
      [] msg.kind = "locationMessage" -> "[Location]"
      [] msg.kind = "contactMessage" -> "[Contact]"
      [] OTHER -> "[Unsupported Message]"

formatLastMessageContent(content, messageType) ==
    IF messageType = "text" THEN OrElseStr(content, "No messages yet") ELSE NullStr

\* ------------------------------------------------------------------ state
VARIABLES
    chats,          \* chats table: jid -> row, for the jids that have a row
    messages,       \* messages table: set of rows, id is the PRIMARY KEY
    contacts,       \* contacts table: jid -> row
    initialChatsPayload,        \* cached conversation list, <<>> when null
    hasPayload,                 \* initialChatsPayload is not null
    clientIsWaitingForChats,
    now,            \* the wall clock Date.now() reads
    hs,             \* the handleHistorySet invocations in flight, per slot
    counters,       \* how many deliveries, live events, sends, ticks, faults
    lastDone,       \* record of the history run that has just completed
    liveSeen,       \* (jid, id) of live messages handed to handleMessagesUpsert
    sock,           \* "null", or "socket" once makeWASocket has returned one
    clientSocket,   \* "null", or "open" while the consumer is connected
    baileysConnectionStatus,    \* last `connection` value the upstream reported
    reconnectAttempts,
    authDir,        \* the credential directory exists
    timers,         \* delays of the pending setTimeout(connectToWhatsApp, delay)
    lastCmd,        \* record of the consumer command that has just been handled
    lastConn,       \* record of the connection step that has just been handled
    call,           \* a function called on its own: its arguments and its result
    clients         \* wss.clients: each consumer connection, open or not, and the
                    \* get_initial_chats it has suspended at its await

\* the state of the upstream session and of the consumer connection
sessionVars == <<sock, clientSocket, baileysConnectionStatus, reconnectAttempts,
                 authDir, timers, clients>>

vars == <<chats, messages, contacts, initialChatsPayload, hasPayload,
          clientIsWaitingForChats, now, hs, counters, lastDone, liveSeen,
          sock, clientSocket, baileysConnectionStatus, reconnectAttempts,
          authDir, timers, lastCmd, lastConn, call, clients>>

\* -------------------------------------------------------------- the store
\* The store as one value, so that an operation is a function on it.
Db == [chats |-> chats, messages |-> messages, contacts |-> contacts]

\* CREATE TABLE chats (...) with the columns the migrations add; a row
\* written by INSERT OR REPLACE gets the column defaults for every column
\* the statement does not list.
ChatRow(name, avatar, lastMessageId, timestamp, lastMessageType, lastMessageFrom) ==
    [name |-> name, avatar_base64 |-> avatar,
     last_message_id |-> lastMessageId,
     last_message_timestamp |-> timestamp,
     last_message_type |-> lastMessageType,
     last_message_from |-> lastMessageFrom,
     unread_count |-> 0, is_archived |-> FALSE,
     history_baseline_timestamp |-> NULL,
     last_sync_timestamp |-> NULL,
     history_complete |-> 0]

\* FOREIGN KEY (chat_jid) REFERENCES chats (jid) ON DELETE CASCADE, with
\* PRAGMA foreign_keys = ON: deleting a chats row deletes its messages.
\* REPLACE deletes the conflicting row before it inserts.
CascadeDeleteChat(msgs, jid) == {m \in msgs : m.chat_jid # jid}

\* Database.saveChat: INSERT OR REPLACE INTO chats
saveChat(db, jid, name, lastMessageId, timestamp, avatar, lastMessageType, lastMessageFrom) ==
    [db EXCEPT
        !.messages = IF jid \in DOMAIN db.chats
                     THEN CascadeDeleteChat(db.messages, jid) ELSE db.messages,
        !.chats = (jid :> ChatRow(name, avatar, lastMessageId, timestamp,
                                  lastMessageType, lastMessageFrom)) @@ db.chats]

\* Database.saveContact: INSERT OR REPLACE INTO contacts
saveContact(db, jid, name, phoneNumber, avatar) ==
    [db EXCEPT !.contacts =
        (jid :> [name |-> name, phone_number |-> phoneNumber,
                 avatar_base64 |-> avatar]) @@ db.contacts]

\* Database.setChatHistoryBaseline: UPDATE chats ... WHERE jid = ?
setChatHistoryBaseline(db, jid, timestamp) ==
    IF jid \in DOMAIN db.chats
    THEN [db EXCEPT !.chats[jid].history_baseline_timestamp = timestamp]
    ELSE db

\* `result.changes > 0` of an UPDATE chats ... WHERE jid = ?
RowUpdated(db, jid) == jid \in DOMAIN db.chats

\* mutant of updateChatSyncTimestamp: the UPDATE writes nothing
updateChatSyncTimestampNoop(db, jid, timestamp) == db

\* Database.updateChatSyncTimestamp: UPDATE chats ... WHERE jid = ?
updateChatSyncTimestamp(db, jid, timestamp) ==
    IF jid \in DOMAIN db.chats
    THEN [db EXCEPT !.chats[jid].last_sync_timestamp = timestamp]
    ELSE db

\* Database.getChatHistoryInfo: the row's cursors, found = FALSE when the
\* query returns no row
getChatHistoryInfo(db, jid) ==
    IF jid \in DOMAIN db.chats
    THEN [found |-> TRUE,
          history_baseline_timestamp |-> db.chats[jid].history_baseline_timestamp,
          last_sync_timestamp |-> db.chats[jid].last_sync_timestamp]
    ELSE [found |-> FALSE, history_baseline_timestamp |-> NULL,
          last_sync_timestamp |-> NULL]

\* the PRIMARY KEY of the messages table: the columns on which INSERT OR
\* REPLACE finds the row to replace
SameMessageKey(row, id, chatJid) == row.id = id

\* The constraints of the INSERT into messages: chat_jid must reference a
\* chats row (foreign key) and timestamp is NOT NULL.
saveMessageFails(db, chatJid, timestamp) ==
    chatJid \notin DOMAIN db.chats \/ timestamp = NULL

\* Database.saveMessage, when the INSERT succeeds: the row replaces the
\* row of the same key, the sender becomes a contact, and the
\* conversation's last-message summary is updated.
saveMessage(db, id, chatJid, fromMe, content, timestamp, messageType, status, senderName, collectionSession) ==
    LET row == [id |-> id, chat_jid |-> chatJid, from_me |-> fromMe,
                message_type |-> messageType, content |-> content,
                timestamp |-> timestamp, status |-> status,
                collection_session |-> collectionSession]
        named == TruthyStr(senderName) /\ ~fromMe
        db1 == [db EXCEPT !.messages =
                   {m \in db.messages : ~SameMessageKey(m, id, chatJid)} \cup {row}]
        db2 == IF named THEN saveContact(db1, chatJid, senderName, NullStr, NullStr)
               ELSE db1
    IN [db2 EXCEPT
          !.chats[chatJid].last_message_id = id,
          !.chats[chatJid].last_message_timestamp = timestamp,
          !.chats[chatJid].last_message_type = messageType,
          !.chats[chatJid].last_message_from = IF fromMe THEN "me" ELSE chatJid,
          !.chats[chatJid].name = IF named THEN senderName ELSE @]

\* ------------------------------------------------- bulk-history deliveries
\* One conversation of a delivery: {id, name, messages, unreadCount};
\* name = "" when the upstream gives none.
Chat(id, name, msgs) == [id |-> id, name |-> name, messages |-> msgs, unreadCount |-> 0]

\* collection_session tags
Session(kind, time) == [kind |-> kind, time |-> time]
NoSession == Session("none", NULL)

Idle == [pc |-> "idle"]
NoDone == [valid |-> FALSE]
NoFirst == [valid |-> FALSE]

MaxOf(S) == CHOOSE x \in S : \A y \in S : y <= x
MinOf(S) == CHOOSE x \in S : \A y \in S : x <= y

\* newest stored timestamp of a conversation, NULL when it has no message
MaxStoredTs(db, jid) ==
    LET T == {m.timestamp : m \in {r \in db.messages : r.chat_jid = jid}}
    IN IF T = {} THEN NULL ELSE MaxOf(T)

\* getMessageKey(msg)?.id: "" when the message has no id
KeyId(msg) == msg.id

\* mutant of NewerThan: the comparison lets the cursor's own instant through
NewerThanOrEqual(msgTimestamp, lastSyncTime) == msgTimestamp >= lastSyncTime

\* the filter `msgTimestamp > lastSyncTime` of a known conversation
NewerThan(msgTimestamp, lastSyncTime) == msgTimestamp > lastSyncTime

FilterNewer(list, lastSyncTime, t) ==
    SelectSeq(list, LAMBDA m : NewerThan(getMessageTimestamp(m, t), lastSyncTime))

\* const oldestMessage = chat.messages[chat.messages.length - 1]
OldestMessage(list) == list[Len(list)]

\* const lastMessage = chat.messages?.[0]
LastMessage(list) == list[1]

\* the conversation the handler is at
CurChat(h) == h.item.chats[h.i]

\* saveMessagesFromHistory skips, without a store operation, a message whose
\* key has no id (and counts it as skipped): the index of the next message
\* it will try to save
NextSaveIdx(list, k) ==
    MinOf({j \in k..Len(list) : TruthyStr(KeyId(list[j]))} \cup {Len(list) + 1})

\* mutant of NextChat: without the inner try/catch a throw leaves the loop
NextChatAbortOnThrow(h, threw) ==
    LET entry == [h.cur EXCEPT !.threw = threw]
        h1 == [h EXCEPT !.log = Append(@, entry), !.i = @ + 1]
    IN IF threw \/ h.i + 1 > Len(h.item.chats)
       THEN [h1 EXCEPT !.pc = "finish"]
       ELSE [h1 EXCEPT !.pc = "info"]

\* End of the conversation's step (the end of the try block, or its catch):
\* on to the next conversation, or out of the loop.
NextChat(h, threw) ==
    LET entry == [h.cur EXCEPT !.threw = threw]
        h1 == [h EXCEPT !.log = Append(@, entry), !.i = @ + 1]
    IN IF h.i + 1 > Len(h.item.chats)
       THEN [h1 EXCEPT !.pc = "finish"]
       ELSE [h1 EXCEPT !.pc = "info"]

\* saveMessagesFromHistory(chat, session) from message k on: position on the
\* next message that has an id and compute its arguments, or return
SaveFrom(h, list, session, k, t) ==
    LET k1 == NextSaveIdx(list, k)
        h1 == [h EXCEPT !.cur.skipped = @ + (k1 - k)]
    IN IF k1 > Len(list)
       THEN [h1 EXCEPT !.pc = "sync", !.list = list]
       ELSE [h1 EXCEPT !.pc = "msgs", !.list = list, !.session = session, !.k = k1,
                       !.ts = getMessageTimestamp(list[k1], t)]

\* mutant of SkipMessage: the throw leaves saveMessagesFromHistory
SkipMessageAbort(h, t) == NextChat(h, TRUE)

\* the catch of lines 966-975: the message is counted as skipped and the
\* loop goes on with the next message
SkipMessage(h, t) ==
    SaveFrom([h EXCEPT !.cur.skipped = @ + 1], h.list, h.session, h.k + 1, t)

\* lines 844-887, after the conversation row (and contact) is written:
\* new conversation -> baseline from the last list element, then all
\* messages; known conversation -> only the messages newer than the cursor
AfterChatSaved(h, t) ==
    LET chat == CurChat(h) IN
    IF h.cur.isNew
    THEN IF Len(chat.messages) > 0
         THEN [h EXCEPT !.pc = "baseline",
                        !.baselineTs = getMessageTimestamp(OldestMessage(chat.messages), t)]
         ELSE [h EXCEPT !.pc = "sync"]
    ELSE IF Len(chat.messages) > 0
         THEN LET newMessages == FilterNewer(chat.messages, h.cur.cursor, t)
              IN IF Len(newMessages) > 0
                 THEN SaveFrom(h, newMessages,
                               Session("progressive-sync", h.currentTime), 1, t)
                 ELSE [h EXCEPT !.pc = "sync"]
         ELSE [h EXCEPT !.pc = "sync"]

\* lines 804-826: the cursors are read, the conversation is classified and
\* its list entry is built.  lastMessage.key.fromMe throws a TypeError when
\* the first message is a history wrapper (msg.key undefined).
ChatData(chat, t) ==
    LET has == Len(chat.messages) > 0
        lastMessage == LastMessage(chat.messages)
        lastMessageType == IF has THEN getMessageType(lastMessage) ELSE "text"
        lastMessageContent == IF has THEN getDisplayMessage(lastMessage) ELSE NullStr
    IN [jid |-> chat.id,
        name |-> OrElseStr(chat.name, chat.id),
        lastMessage |-> formatLastMessageContent(lastMessageContent, lastMessageType),
        timestamp |-> IF has THEN getMessageTimestamp(lastMessage, t) ELSE t,
        lastMessageType |-> lastMessageType,
        lastMessageFrom |-> IF has THEN (IF lastMessage.fromMe THEN "me" ELSE chat.id)
                            ELSE NullStr,
        unreadCount |-> chat.unreadCount,
        avatarBase64 |-> NullStr]

\* lastMessage?.key?.id, the third argument of saveChat
LastMessageId(chat) ==
    IF Len(chat.messages) > 0 THEN KeyId(LastMessage(chat.messages)) ELSE NullStr

\* what is recorded about one conversation's step
EmptyCur(jid) ==
    [jid |-> jid, isNew |-> FALSE, cursor |-> NULL, baselineRead |-> NULL,
     lastSyncRead |-> NULL, maxStored |-> NULL, baselineSet |-> NULL,
     written |-> {}, saved |-> 0, skipped |-> 0, synced |-> FALSE, threw |-> FALSE,
     classified |-> FALSE]

Classify(h, db, t) ==
    LET chat == CurChat(h)
        historyInfo == getChatHistoryInfo(db, chat.id)
        isNewChat == ~historyInfo.found \/ ~Truthy(historyInfo.history_baseline_timestamp)
        cur == [EmptyCur(chat.id) EXCEPT
                !.classified = TRUE,
                !.isNew = isNewChat,
                !.cursor = IF isNewChat THEN NULL
                           ELSE OrElse(historyInfo.last_sync_timestamp,
                                       historyInfo.history_baseline_timestamp),
                !.baselineRead = historyInfo.history_baseline_timestamp,
                !.lastSyncRead = historyInfo.last_sync_timestamp,
                !.maxStored = MaxStoredTs(db, chat.id)]
        h1 == [h EXCEPT !.cur = cur]
    IN IF Len(chat.messages) > 0 /\ LastMessage(chat.messages).nested
       THEN NextChat(h1, TRUE)
       ELSE [h1 EXCEPT !.pc = "saveChat", !.cd = ChatData(chat, t),
                       !.payload = Append(@, ChatData(chat, t))]

\* ---------------------------------------------------------------- actions
Bump(field) == [counters EXCEPT ![field] = @ + 1]

\* a store operation may fail (the promise rejects) a bounded number of times
MayFail(fail) == fail => counters.faults < MaxFaults
CountFault(fail) == IF fail THEN Bump("faults") ELSE counters

\* an invocation in flight that another handler's step has run in between
Disturbed(x) == IF x.pc = "idle" THEN x ELSE [x EXCEPT !.first = NoFirst, !.clean = FALSE]

NoCmd == [valid |-> FALSE]
NoConn == [valid |-> FALSE]
NoCall == [fn |-> "none"]

\* the consumer connections the gateway can hold at once, and a connection
\* that is closed with no command in flight
Conns == {1, 2}
NoClient == [open |-> FALSE, pc |-> "idle", dbChats |-> <<>>]

\* an outward envelope { type, data }: data is kept as its `type` tag, its
\* jid, its conversation list and its message list (unused parts empty)
Envelope(type, tag, jid, list, msgs) ==
    [type |-> type, tag |-> tag, jid |-> jid, chats |-> list, messages |-> msgs]

\* sendToFrontend(type, data), lines 291-303: what reaches the consumer;
\* nothing when no consumer socket is open
sendToFrontend(client, env) == IF client = "open" THEN <<env>> ELSE <<>>

\* the record of a call of waitForInitialHistory in flight: where it is,
\* the conversations it found in sock.store, how many it saved, and the
\* time its polling has counted
WaitCall(pc, storeChats) ==
    [fn |-> "waitForInitialHistory", pc |-> pc, storeChats |-> storeChats, i |-> 1,
     processedChats |-> 0, waitTime |-> 0]

\* What a step of invocation s of handleHistorySet, now at h, leaves of
\* `call`; waitForInitialHistory's own call of handleHistorySet runs in
\* slot 2.  The record of a function that has returned is dropped.  A
\* waitForInitialHistory in flight stays; when the invocation it awaits at
\* line 1512 ends, it goes on to the `return` of line 1513, which leaves
\* the promise's executor without calling resolve.
AfterHistoryStep(c, s, h) ==
    IF c.fn # "waitForInitialHistory" THEN NoCall
    ELSE IF s = 2 /\ c.pc = "trigger" THEN [c EXCEPT !.pc = "history"]
    ELSE IF s = 2 /\ c.pc = "history" /\ h.pc = "finish"
         THEN [c EXCEPT !.pc = "returned"]
    ELSE c

\* The outcome of one step of invocation s: the store and the invocation's
\* new position.  Leaving the loop runs lines 897-911 in the same step:
\* the list is cached, a waiting consumer is served, the flag is cleared.
Commit(s, h, db) ==
    /\ chats' = db.chats
    /\ messages' = db.messages
    /\ contacts' = db.contacts
    /\ IF h.pc = "finish"
       THEN /\ initialChatsPayload' = h.payload
            /\ hasPayload' = TRUE
            /\ clientIsWaitingForChats' = FALSE
            /\ hs' = [t \in Slots |-> IF t = s THEN Idle ELSE Disturbed(hs[t])]
            /\ lastDone' = [valid |-> TRUE, item |-> h.item,
                            currentTime |-> h.currentTime, log |-> h.log,
                            first |-> h.first, clean |-> h.clean,
                            payload |-> h.payload,
                            waiting |-> clientIsWaitingForChats,
                            client |-> clientSocket,
                            sent |-> IF clientIsWaitingForChats
                                     THEN sendToFrontend(clientSocket,
                                            Envelope("initial_chats", "", "", h.payload, <<>>))
                                     ELSE <<>>]
       ELSE /\ hs' = [t \in Slots |-> IF t = s THEN h ELSE Disturbed(hs[t])]
            /\ lastDone' = NoDone
            /\ UNCHANGED <<initialChatsPayload, hasPayload, clientIsWaitingForChats>>
    /\ lastCmd' = NoCmd
    /\ lastConn' = NoConn
    /\ call' = AfterHistoryStep(call, s, h)
    /\ UNCHANGED <<now, liveSeen>>
    /\ UNCHANGED sessionVars

\* handleHistorySet(item), lines 771-801: the processing time is taken and
\* the cursors of the first conversation are asked for
HistoryStart(s, item) ==
    /\ hs[s].pc = "idle"
    /\ counters.deliveries < MaxDeliveries
    /\ counters' = Bump("deliveries")
    /\ LET first == IF lastDone.valid /\ lastDone.clean /\ lastDone.item = item
                    THEN [valid |-> TRUE, messages |-> messages, chats |-> chats,
                          time |-> lastDone.currentTime]
                    ELSE NoFirst
           h == [pc |-> IF Len(item.chats) = 0 THEN "finish" ELSE "info",
                 item |-> item, currentTime |-> now, i |-> 1, payload |-> <<>>,
                 cd |-> <<>>, cur |-> <<>>, list |-> <<>>, k |-> 0,
                 session |-> NoSession, baselineTs |-> NULL, ts |-> NULL,
                 log |-> <<>>, first |-> first, clean |-> TRUE]
       IN Commit(s, h, Db)

\* await database.getChatHistoryInfo(chat.id), then lines 805-826
HistoryInfo(s, F) ==
    /\ hs[s].pc = "info"
    /\ \E fail \in F :
        /\ MayFail(fail)
        /\ counters' = CountFault(fail)
        /\ IF fail
           THEN Commit(s, NextChat([hs[s] EXCEPT !.cur = EmptyCur(CurChat(hs[s]).id)], TRUE), Db)
           ELSE Commit(s, Classify(hs[s], Db, now), Db)

\* await database.saveChat(...), lines 829-840
HistorySaveChat(s, F) ==
    /\ hs[s].pc = "saveChat"
    /\ \E fail \in F :
        /\ MayFail(fail)
        /\ counters' = CountFault(fail)
        /\ LET h == hs[s]
               chat == CurChat(h)
               cd == h.cd
           IN IF fail
              THEN Commit(s, NextChat(h, TRUE), Db)
              ELSE LET db == saveChat(Db, cd.jid, cd.name, LastMessageId(chat),
                                      cd.timestamp, NullStr, cd.lastMessageType,
                                      cd.lastMessageFrom)
                   IN IF TruthyStr(chat.name) /\ chat.name # chat.id
                      THEN Commit(s, [h EXCEPT !.pc = "saveContact"], db)
                      ELSE Commit(s, AfterChatSaved(h, now), db)

\* await database.saveContact(chat.id, chat.name), line 841
HistorySaveContact(s, F) ==
    /\ hs[s].pc = "saveContact"
    /\ \E fail \in F :
        /\ MayFail(fail)
        /\ counters' = CountFault(fail)
        /\ LET h == hs[s]
               chat == CurChat(h)
           IN IF fail
              THEN Commit(s, NextChat(h, TRUE), Db)
              ELSE Commit(s, AfterChatSaved(h, now),
                          saveContact(Db, chat.id, chat.name, NullStr, NullStr))

\* await database.setChatHistoryBaseline(chat.id, baselineTimestamp), then
\* saveMessagesFromHistory(chat, `initial-sync-${currentTime}`) begins
HistoryBaseline(s, F) ==
    /\ hs[s].pc = "baseline"
    /\ \E fail \in F :
        /\ MayFail(fail)
        /\ counters' = CountFault(fail)
        /\ LET h == hs[s]
               chat == CurChat(h)
           IN IF fail
              THEN Commit(s, NextChat(h, TRUE), Db)
              ELSE Commit(s,
                      SaveFrom([h EXCEPT !.cur.baselineSet =
                                    IF chat.id \in DOMAIN chats THEN h.baselineTs ELSE @],
                               chat.messages,
                               Session("initial-sync", h.currentTime), 1, now),
                      setChatHistoryBaseline(Db, chat.id, h.baselineTs))

\* one iteration of saveMessagesFromHistory, lines 935-976: a message whose
\* store write throws is skipped and the loop goes on
HistorySaveMessage(s, F) ==
    /\ hs[s].pc = "msgs"
    /\ \E fail \in F :
        /\ MayFail(fail)
        /\ counters' = CountFault(fail)
        /\ LET h == hs[s]
               chat == CurChat(h)
               msg == h.list[h.k]
               senderName == OrElseStr(msg.pushName, OrElseStr(chat.name, "Unknown"))
           IN IF fail \/ saveMessageFails(Db, chat.id, h.ts)
              THEN Commit(s, SkipMessage(h, now), Db)
              ELSE Commit(s,
                      SaveFrom([h EXCEPT !.cur.saved = @ + 1,
                                         !.cur.written =
                                    @ \cup {[id |-> KeyId(msg), ts |-> h.ts]}],
                               h.list, h.session, h.k + 1, now),
                      saveMessage(Db, KeyId(msg), chat.id, msg.fromMe,
                                  OrElseStr(getDisplayMessage(msg),
                                            "[Message content unavailable]"),
                                  h.ts, getMessageType(msg),
                                  IF msg.fromMe THEN "sent" ELSE "received",
                                  senderName, h.session))

\* mutant of SyncTime: the clock is read again when the cursor is written
SyncTimeAtWrite(h, t) == t

\* the second argument of updateChatSyncTimestamp, line 890: currentTime,
\* the Date.now() taken at line 785 (t is the clock at the write)
SyncTime(h, t) == h.currentTime

\* await database.updateChatSyncTimestamp(chat.id, currentTime), line 890
HistorySync(s, F) ==
    /\ hs[s].pc = "sync"
    /\ \E fail \in F :
        /\ MayFail(fail)
        /\ counters' = CountFault(fail)
        /\ LET h == hs[s]
               chat == CurChat(h)
           IN IF fail
              THEN Commit(s, NextChat(h, TRUE), Db)
              ELSE Commit(s, NextChat([h EXCEPT !.cur.synced = chat.id \in DOMAIN chats],
                                      FALSE),
                          updateChatSyncTimestamp(Db, chat.id, SyncTime(h, now)))

\* A step of another handler: the store changes under the invocations in
\* flight, and the run that had just completed is no longer the last thing
\* that happened.  c records the handler's run when it is a live event.
CommitLive(db, c) ==
    /\ chats' = db.chats
    /\ messages' = db.messages
    /\ contacts' = db.contacts
    /\ hs' = [t \in Slots |-> Disturbed(hs[t])]
    /\ lastDone' = NoDone
    /\ lastConn' = NoConn
    /\ call' = c
    /\ UNCHANGED <<initialChatsPayload, hasPayload, clientIsWaitingForChats, now>>
    /\ UNCHANGED sessionVars

CommitOther(db) == CommitLive(db, NoCall)

\* a live `messages.upsert` event { messages, type }; jid is the
\* key.remoteJid of its messages
UpsertEvent(msgs, jid, type) == [messages |-> msgs, jid |-> jid, type |-> type]

\* the data of a newMessage envelope, lines 1016-1027
NewMessage(id, timestamp, type, chatJid, contactName, avatarBase64) ==
    [type |-> "newMessage", id |-> id, timestamp |-> timestamp, messageType |-> type,
     chatJid |-> chatJid, contactName |-> contactName, avatarBase64 |-> avatarBase64]

\* mutant of newMessageSent: the notification does not wait for the write
newMessageSentAnyway(written, client, env) == sendToFrontend(client, env)

\* Lines 999-1027 run in order inside the try: sendToFrontend('newMessage')
\* is reached only when saveMessage and getContact have returned.
newMessageSent(written, client, env) ==
    IF written THEN sendToFrontend(client, env) ELSE <<>>

\* the record of one run of handleMessagesUpsert: the event, whether
\* messages[0] passed the two conditions, whether its row was written, what
\* reached the consumer, and how the run ended ("done", or "caught" when
\* the catch of line 1039 took an exception; nothing is rethrown)
LiveRun(m, handled, written, sent, outcome) ==
    [fn |-> "handleMessagesUpsert", m |-> m, handled |-> handled, written |-> written,
     sent |-> sent, outcome |-> outcome]

\* handleMessagesUpsert(m), lines 986-1043.  Only m.messages[0] is read: an
\* inbound notify message with displayable content is saved with the
\* 'real-time' session, timestamp messageTimestamp * 1000 and type 'text',
\* its contact is read back and newMessage is sent.  An exception (no
\* message in the event, a failed write, a failed getContact) is caught.
handleMessagesUpsert(m, F) ==
    /\ counters.events < MaxEvents
    /\ \E fail \in F, failGet \in F :
        /\ ~(fail /\ failGet)
        /\ MayFail(fail \/ failGet)
        /\ counters' = [CountFault(fail \/ failGet) EXCEPT !.events = @ + 1]
        /\ lastCmd' = NoCmd
        /\ IF m.messages = <<>>
           THEN /\ ~fail /\ ~failGet
                /\ UNCHANGED liveSeen
                /\ CommitLive(Db, LiveRun(m, FALSE, FALSE, <<>>, "caught"))
           ELSE LET msg == m.messages[1]
                    jid == m.jid
                    messageContent == getDisplayMessage(msg)
                    handled == ~msg.fromMe /\ m.type = "notify" /\ TruthyStr(messageContent)
                    contactName == OrElseStr(msg.pushName, NullStr)
                    ts == TopLevelTimestampMs(msg)
                    written == handled /\ ~fail /\ ~saveMessageFails(Db, jid, ts)
                    db == IF written
                          THEN saveMessage(Db, KeyId(msg), jid, FALSE, messageContent, ts,
                                           "text", "received", contactName,
                                           Session("real-time", NULL))
                          ELSE Db
                    avatar == IF jid \in DOMAIN db.contacts
                              THEN db.contacts[jid].avatar_base64 ELSE NullStr
                    env == NewMessage(KeyId(msg), ts, getMessageType(msg), jid,
                                      contactName, avatar)
                    sent == newMessageSent(written /\ ~failGet, clientSocket, env)
                IN /\ (fail \/ failGet) => handled
                   /\ failGet => written
                   /\ liveSeen' = IF handled THEN liveSeen \cup {<<jid, KeyId(msg)>>}
                                  ELSE liveSeen
                   /\ CommitLive(db, LiveRun(m, handled, written, sent,
                                    IF handled /\ (~written \/ failGet)
                                    THEN "caught" ELSE "done"))

\* id of the row handleSendMessage's catch block writes: `failed_${Date.now()}`
FailedId(t) == "failed_" \o ToString(t)

\* the data of a consumer command: present is FALSE when the command has
\* no data object; "" and NULL stand for a field that is absent
NoData == [present |-> FALSE, to |-> "", message |-> "", jid |-> "", limit |-> NULL, offset |-> NULL]
SendData(to, message) == [NoData EXCEPT !.present = TRUE, !.to = to, !.message = message]

\* everything of the program a command could change
ProgramState ==
    <<chats, messages, contacts, initialChatsPayload, hasPayload, clientIsWaitingForChats,
      sock, clientSocket, baileysConnectionStatus, reconnectAttempts, authDir, timers>>

\* the record of a handled command: what reached the consumer, which
\* upstream requests were made, and the state it started from
Cmd(type, data, sent, upstream) ==
    [valid |-> TRUE, type |-> type, data |-> data, sent |-> sent,
     upstream |-> upstream, pre |-> ProgramState]

\* `!sock || baileysConnectionStatus !== 'open'` negated
Connected == sock # "null" /\ baileysConnectionStatus = "open"

\* the catch of ws.on('message'), lines 191-195: an exception that leaves
\* handleFrontendCommand is answered with a generic `error` envelope
MessageProcessingError ==
    sendToFrontend(clientSocket, Envelope("error", "errorHandler.websocket", "", <<>>, <<>>))

\* handleSendMessage(data), lines 305-373, with sock.sendMessage returning
\* key.id = sentId.  The destructuring of line 307 is outside the try: with
\* no data it throws to the caller.  Inside the try, missing fields and a
\* closed upstream throw before the upstream is called; otherwise the
\* message is sent and saved and the conversation row is written with
\* saveChat.  The catch sends message_error and tries to save a 'failed' row.
\* The command arrives on the consumer's open socket (line 180).
handleSendMessage(data, sentId, F) ==
    /\ clientSocket = "open"
    /\ counters.events < MaxEvents
    /\ \E fail \in F :
        /\ MayFail(fail)
        /\ counters' = [CountFault(fail) EXCEPT !.events = @ + 1]
        /\ UNCHANGED liveSeen
        /\ LET to == data.to
               content == IF TruthyStr(data.message) THEN data.message ELSE NullStr
               valid == TruthyStr(to) /\ TruthyStr(data.message)
               failedDb == IF saveMessageFails(Db, to, now) THEN Db
                           ELSE saveMessage(Db, FailedId(now), to, TRUE, content, now,
                                            "text", "failed", NullStr, NoSession)
               messageError == sendToFrontend(clientSocket,
                                  Envelope("message_error", "", "", <<>>, <<>>))
           IN IF ~data.present
              THEN /\ CommitOther(Db)
                   /\ lastCmd' = Cmd("send_message", data, MessageProcessingError, <<>>)
              ELSE IF ~valid \/ ~Connected
              THEN /\ CommitOther(failedDb)
                   /\ lastCmd' = Cmd("send_message", data, messageError, <<>>)
              ELSE IF fail \/ saveMessageFails(Db, to, now)
              THEN /\ CommitOther(failedDb)
                   /\ lastCmd' = Cmd("send_message", data, messageError, <<"sendMessage">>)
              ELSE /\ CommitOther(
                        saveChat(saveMessage(Db, sentId, to, TRUE, content, now, "text",
                                             "sent", NullStr, NoSession),
                                 to, NullStr, sentId, now, NullStr, "text", "me"))
                   /\ lastCmd' = Cmd("send_message", data,
                                     sendToFrontend(clientSocket,
                                        Envelope("message_sent", "", to, <<>>, <<>>)),
                                     <<"sendMessage">>)

\* ------------------------------------------------------- store queries
Min(a, b) == IF a <= b THEN a ELSE b

\* ORDER BY key DESC: every order of the rows of S that is non-increasing in
\* key, a function on S (rows with equal keys come in any order)
DescOrders(S, key) ==
    {q \in [1..Cardinality(S) -> S] :
        /\ \A i, j \in 1..Cardinality(S) : i # j => q[i] # q[j]
        /\ \A i, j \in 1..Cardinality(S) : i < j => key[q[i]] >= key[q[j]]}

\* LIMIT limit OFFSET offset of an ordered result
LimitOffset(q, limit, offset) ==
    IF offset >= Len(q) \/ limit <= 0 THEN <<>>
    ELSE SubSeq(q, offset + 1, Min(Len(q), offset + limit))

\* mutant of Reverse: the query's newest-first order is kept
ReverseNot(q) == q

\* Array.prototype.reverse
Reverse(q) == [i \in 1..Len(q) |-> q[Len(q) + 1 - i]]

\* Database.getMessagesWithSender(chatJid, limit, offset): the results the
\* query can give, each already reversed to chronological order
getMessagesWithSender(db, chatJid, limit, offset) ==
    LET rows == {m \in db.messages : m.chat_jid = chatJid}
    IN {Reverse(LimitOffset(q, limit, offset)) :
            q \in DescOrders(rows, [m \in rows |-> m.timestamp])}

\* one row of Database.getChats: the chats row joined with its contact,
\* mapped as handleGetInitialChats and loadInitialChats map it
ChatView(db, jid) ==
    LET c == db.chats[jid]
        contactName == IF jid \in DOMAIN db.contacts THEN db.contacts[jid].name ELSE NullStr
        contactAvatar == IF jid \in DOMAIN db.contacts THEN db.contacts[jid].avatar_base64
                         ELSE NullStr
    IN [jid |-> jid,
        avatarBase64 |-> contactAvatar,
        name |-> OrElseStr(contactName, OrElseStr(c.name, jid)),
        timestamp |-> c.last_message_timestamp,
        lastMessageType |-> OrElseStr(c.last_message_type, "text"),
        lastMessageFrom |-> c.last_message_from,
        unreadCount |-> c.unread_count]

\* Database.getChats(limit): the lists the query can give
getChats(db, limit) ==
    LET rows == {j \in DOMAIN db.chats : ~db.chats[j].is_archived}
    IN {[i \in 1..Len(LimitOffset(q, limit, 0)) |-> ChatView(db, q[i])] :
            q \in DescOrders(rows, [j \in rows |-> db.chats[j].last_message_timestamp])}

\* ------------------------------------------------------ consumer commands
\* The outcome of a consumer command: the store, the pending flag and the
\* record of the command.
CommitCommand(db, waiting, cmd) ==
    /\ chats' = db.chats
    /\ messages' = db.messages
    /\ contacts' = db.contacts
    /\ clientIsWaitingForChats' = waiting
    /\ hs' = [t \in Slots |-> Disturbed(hs[t])]
    /\ lastDone' = NoDone
    /\ lastConn' = NoConn
    /\ call' = NoCall
    /\ lastCmd' = cmd
    /\ counters' = Bump("commands")
    /\ UNCHANGED <<initialChatsPayload, hasPayload, now, liveSeen>>
    /\ UNCHANGED sessionVars

\* a command arrives on the consumer's socket
CommandArrives == clientSocket = "open" /\ counters.commands < MaxCommands

\* mutant of StoreHasChats: the store's list is never used
StoreHasChatsNever(dbChats) == FALSE

\* `dbChats.length > 0`, line 264
StoreHasChats(dbChats) == Len(dbChats) > 0

\* handleGetInitialChats(), lines 256-289
handleGetInitialChats ==
    /\ CommandArrives
    /\ IF hasPayload
       THEN CommitCommand(Db, clientIsWaitingForChats,
                Cmd("get_initial_chats", NoData,
                    sendToFrontend(clientSocket,
                        Envelope("initial_chats", "cached", "", initialChatsPayload, <<>>)),
                    <<>>))
       ELSE \E dbChats \in getChats(Db, DefaultLimit) :
               IF StoreHasChats(dbChats)
               THEN CommitCommand(Db, clientIsWaitingForChats,
                        Cmd("get_initial_chats", NoData,
                            sendToFrontend(clientSocket,
                                Envelope("initial_chats", "store", "", dbChats, <<>>)),
                            <<>>))
               ELSE CommitCommand(Db, TRUE, Cmd("get_initial_chats", NoData, <<>>, <<>>))

\* The outcome of a step of a command on connection w that leaves the
\* store alone: the pending flag, the record of the command when it has
\* been answered, and the position of the connection's handler.
CommitClient(waiting, cmd, w, pc, dbChats) ==
    /\ clientIsWaitingForChats' = waiting
    /\ clients' = [clients EXCEPT ![w].pc = pc, ![w].dbChats = dbChats]
    /\ hs' = [t \in Slots |-> Disturbed(hs[t])]
    /\ lastDone' = NoDone
    /\ lastConn' = NoConn
    /\ call' = NoCall
    /\ lastCmd' = cmd
    /\ UNCHANGED <<chats, messages, contacts, initialChatsPayload, hasPayload, now, liveSeen>>
    /\ UNCHANGED <<sock, clientSocket, baileysConnectionStatus, reconnectAttempts,
                   authDir, timers>>

\* handleGetInitialChats(), lines 256-263, for a command that arrived on
\* connection w: a cached list is sent at once; without one the handler
\* issues database.getChats() and is suspended until the query resolves.
handleGetInitialChatsRead(w) ==
    /\ clients[w].open
    /\ clients[w].pc = "idle"
    /\ counters.commands < MaxCommands
    /\ counters' = Bump("commands")
    /\ IF hasPayload
       THEN CommitClient(clientIsWaitingForChats,
                Cmd("get_initial_chats", NoData,
                    sendToFrontend(clientSocket,
                        Envelope("initial_chats", "cached", "", initialChatsPayload, <<>>)),
                    <<>>),
                w, "idle", <<>>)
       ELSE \E dbChats \in getChats(Db, DefaultLimit) :
               CommitClient(clientIsWaitingForChats, NoCmd, w, "getChats", dbChats)

\* handleGetInitialChats(), lines 264-283, resumed with the list the query
\* gave: it is sent when it has conversations, otherwise the pending flag
\* is set; initialChatsPayload is not read again.
handleGetInitialChatsAnswer(w) ==
    /\ clients[w].pc = "getChats"
    /\ UNCHANGED counters
    /\ LET dbChats == clients[w].dbChats
       IN IF StoreHasChats(dbChats)
          THEN CommitClient(clientIsWaitingForChats,
                   Cmd("get_initial_chats", NoData,
                       sendToFrontend(clientSocket,
                           Envelope("initial_chats", "store", "", dbChats, <<>>)),
                       <<>>),
                   w, "idle", <<>>)
          ELSE CommitClient(TRUE, Cmd("get_initial_chats", NoData, <<>>, <<>>),
                            w, "idle", <<>>)

\* the messages sock.fetchMessageHistory resolved with are saved one by
\* one (lines 391-405); a save that throws ends the loop with what was
\* saved so far
RECURSIVE SaveFetched(_, _, _)
SaveFetched(db, jid, list) ==
    IF list = <<>> THEN [db |-> db, threw |-> FALSE]
    ELSE LET msg == Head(list)
             messageContent == getDisplayMessage(msg)
             messageType == getMessageType(msg)
             ts == TopLevelTimestampMs(msg)
         IN IF ~(TruthyStr(messageContent) \/ messageType # "text")
            THEN SaveFetched(db, jid, Tail(list))
            ELSE IF msg.nested \/ saveMessageFails(db, jid, ts)
            THEN [db |-> db, threw |-> TRUE]
            ELSE SaveFetched(
                    saveMessage(db, KeyId(msg), jid, msg.fromMe,
                                OrElseStr(messageContent, ""), ts, messageType,
                                "received", OrElseStr(msg.pushName, NullStr), NoSession),
                    jid, Tail(list))

\* what sock.fetchMessageHistory does when it is called
Fetched(rejects, list) == [rejects |-> rejects, list |-> list]

\* handleGetMessageHistory(data), lines 375-439, where the upstream answers
\* a backfill request as `fetched` says: it rejects, or resolves with a list
handleGetMessageHistory(data, fetched) ==
    /\ CommandArrives
    /\ IF ~data.present
       THEN CommitCommand(Db, clientIsWaitingForChats,
                Cmd("get_message_history", data, MessageProcessingError, <<>>))
       ELSE LET jid == data.jid
                limit == IF data.limit = NULL THEN DefaultLimit ELSE data.limit
                offset == IF data.offset = NULL THEN 0 ELSE data.offset
            IN \E first \in getMessagesWithSender(Db, jid, limit, offset) :
                 IF Len(first) = 0 /\ Connected
                 THEN IF fetched.rejects
                      THEN CommitCommand(Db, clientIsWaitingForChats,
                              Cmd("get_message_history", data,
                                  sendToFrontend(clientSocket,
                                      Envelope("message_history", "", jid, <<>>, first)),
                                  <<"fetchMessageHistory">>))
                      ELSE LET r == SaveFetched(Db, jid, fetched.list)
                           IN \E second \in getMessagesWithSender(r.db, jid, limit, offset) :
                                CommitCommand(r.db, clientIsWaitingForChats,
                                    Cmd("get_message_history", data,
                                        sendToFrontend(clientSocket,
                                            Envelope("message_history", "", jid, <<>>,
                                                     IF r.threw THEN first ELSE second)),
                                        <<"fetchMessageHistory">>))
                 ELSE /\ fetched = Fetched(FALSE, <<>>)
                      /\ CommitCommand(Db, clientIsWaitingForChats,
                              Cmd("get_message_history", data,
                                  sendToFrontend(clientSocket,
                                      Envelope("message_history", "", jid, <<>>, first)),
                                  <<>>))

\* handleSyncContacts(), lines 489-550: no upstream request is left in the
\* loop, so the command reports its progress over the stored conversations
handleSyncContacts ==
    /\ CommandArrives
    /\ IF ~Connected
       THEN CommitCommand(Db, clientIsWaitingForChats,
                Cmd("sync_contacts", NoData,
                    sendToFrontend(clientSocket,
                        Envelope("sync_contacts_error", "", "", <<>>, <<>>)),
                    <<>>))
       ELSE \E list \in getChats(Db, SyncContactsLimit) :
              CommitCommand(Db, clientIsWaitingForChats,
                Cmd("sync_contacts", NoData,
                    sendToFrontend(clientSocket,
                        Envelope("sync_contacts_started", "", "", <<>>, <<>>))
                    \o (IF Len(list) > 0
                        THEN sendToFrontend(clientSocket,
                                Envelope("sync_contacts_progress", "", "", <<>>, <<>>))
                        ELSE <<>>)
                    \o sendToFrontend(clientSocket,
                        Envelope("sync_contacts_completed", "", "", <<>>, <<>>)),
                    <<>>))

\* handleGetContactInfo(data), lines 552-592
handleGetContactInfo(data) ==
    /\ CommandArrives
    /\ CommitCommand(Db, clientIsWaitingForChats,
          Cmd("get_contact_info", data,
              IF ~data.present THEN MessageProcessingError
              ELSE IF ~TruthyStr(data.jid)
              THEN sendToFrontend(clientSocket,
                      Envelope("contact_info_error", "", data.jid, <<>>, <<>>))
              ELSE sendToFrontend(clientSocket,
                      Envelope("contact_info", "", data.jid, <<>>, <<>>)),
              <<>>))

\* handleTypingStart(data) and handleTypingStop(data), lines 441-465
handleTyping(type, data) ==
    /\ CommandArrives
    /\ CommitCommand(Db, clientIsWaitingForChats,
          Cmd(type, data,
              IF ~data.present THEN MessageProcessingError ELSE <<>>,
              IF data.present /\ Connected THEN <<"sendPresenceUpdate">> ELSE <<>>))

\* handleHealthCheck(), lines 467-487
handleHealthCheck ==
    /\ CommandArrives
    /\ \E ok \in BOOLEAN :
          CommitCommand(Db, clientIsWaitingForChats,
              Cmd("health_check", NoData,
                  sendToFrontend(clientSocket,
                      Envelope(IF ok THEN "health_status" ELSE "health_error",
                               "", "", <<>>, <<>>)),
                  <<>>))

\* mutant of UnknownCommand: an unknown type is dropped without an answer
UnknownCommandSilent(type) ==
    /\ CommandArrives
    /\ CommitCommand(Db, clientIsWaitingForChats, Cmd(type, NoData, <<>>, <<>>))

\* the default branch of handleFrontendCommand, lines 247-252
UnknownCommand(type) ==
    /\ CommandArrives
    /\ CommitCommand(Db, clientIsWaitingForChats,
          Cmd(type, NoData,
              sendToFrontend(clientSocket,
                  Envelope("error", "unknown_command", "", <<>>, <<>>)),
              <<>>))

\* the command types handleFrontendCommand has a case for
RecognizedCommands ==
    {"get_initial_chats", "send_message", "get_message_history", "typing_start",
     "typing_stop", "health_check", "sync_contacts", "get_contact_info"}

\* ------------------------------------------------- the upstream session
\* The outcome of a step of the session: the cached list, the pending
\* flag, the session state and the record of the step.
CommitSession(payload, has, waiting, conn) ==
    /\ initialChatsPayload' = payload
    /\ hasPayload' = has
    /\ clientIsWaitingForChats' = waiting
    /\ hs' = [t \in Slots |-> Disturbed(hs[t])]
    /\ lastDone' = NoDone
    /\ lastCmd' = NoCmd
    /\ lastConn' = conn
    /\ call' = NoCall
    /\ UNCHANGED <<chats, messages, contacts, now, counters, liveSeen>>

\* the record of a session step: the update, the attempt counter before
\* it, what reached the consumer and the delays of the attempts scheduled
Conn(connection, reason, sent, scheduled, removed) ==
    [valid |-> TRUE, connection |-> connection, reason |-> reason,
     before |-> reconnectAttempts, sent |-> sent, scheduled |-> scheduled,
     removed |-> removed]

\* mutant of MayReconnect: the attempts are not counted against a maximum
MayReconnectAlways(attempts) == TRUE

\* `reconnectAttempts < MAX_RECONNECT_ATTEMPTS`, lines 659 and 716
MayReconnect(attempts) == attempts < MAX_RECONNECT_ATTEMPTS

\* connectToWhatsApp(), lines 594-668, run by the timer at position k (the
\* first call is initializeBackend's): the credentials are loaded, which
\* creates their directory, and a socket is made; when that throws, the
\* catch schedules another attempt while the counter is below the maximum.
connectToWhatsApp(k, ok) ==
    /\ k \in 1..Len(timers)
    /\ UNCHANGED <<clientSocket, clients, baileysConnectionStatus>>
    /\ LET rest == [i \in 1..(Len(timers) - 1) |-> IF i < k THEN timers[i] ELSE timers[i + 1]]
       IN IF ok
          THEN /\ sock' = "socket"
               /\ authDir' = TRUE
               /\ timers' = rest
               /\ UNCHANGED reconnectAttempts
               /\ CommitSession(initialChatsPayload, hasPayload, clientIsWaitingForChats,
                                Conn("connect", "", <<>>, <<>>, FALSE))
          ELSE /\ UNCHANGED <<sock, authDir>>
               /\ IF MayReconnect(reconnectAttempts)
                  THEN /\ reconnectAttempts' = reconnectAttempts + 1
                       /\ timers' = Append(rest, RECONNECT_DELAY)
                       /\ CommitSession(initialChatsPayload, hasPayload,
                                        clientIsWaitingForChats,
                                        Conn("connect", "error", <<>>, <<RECONNECT_DELAY>>, FALSE))
                  ELSE /\ timers' = rest
                       /\ UNCHANGED reconnectAttempts
                       /\ CommitSession(initialChatsPayload, hasPayload,
                                        clientIsWaitingForChats,
                                        Conn("connect", "error",
                                             sendToFrontend(clientSocket,
                                                Envelope("connection_failed", "", "", <<>>, <<>>)),
                                             <<>>, FALSE))

\* handleConnectionUpdate({connection: 'close', lastDisconnect}), lines
\* 688-735; reason is "loggedOut" when the status code is
\* DisconnectReason.loggedOut; rmFails when fs.rm of the credentials throws
ConnectionClose(reason, rmFails) ==
    /\ sock # "null"
    /\ Len(timers) < MaxTimers
    /\ baileysConnectionStatus' = "close"
    /\ UNCHANGED <<sock, clientSocket, clients>>
    /\ LET status == sendToFrontend(clientSocket,
                        Envelope("connection_status", "closed", "", <<>>, <<>>))
       IN IF reason = "loggedOut"
          THEN /\ authDir' = IF rmFails THEN authDir ELSE FALSE
               /\ reconnectAttempts' = 0
               /\ timers' = Append(timers, LOGOUT_RECONNECT_DELAY)
               /\ CommitSession(<<>>, FALSE, clientIsWaitingForChats,
                     Conn("close", reason,
                          status \o sendToFrontend(clientSocket,
                                       Envelope("session_logout", "", "", <<>>, <<>>)),
                          <<LOGOUT_RECONNECT_DELAY>>, ~rmFails))
          ELSE /\ rmFails = FALSE
               /\ UNCHANGED authDir
               /\ IF MayReconnect(reconnectAttempts)
                  THEN /\ reconnectAttempts' = reconnectAttempts + 1
                       /\ timers' = Append(timers, RECONNECT_DELAY)
                       /\ CommitSession(<<>>, FALSE, clientIsWaitingForChats,
                             Conn("close", reason,
                                  status \o sendToFrontend(clientSocket,
                                               Envelope("connection_lost", "", "", <<>>, <<>>)),
                                  <<RECONNECT_DELAY>>, FALSE))
                  ELSE /\ UNCHANGED <<reconnectAttempts, timers>>
                       /\ CommitSession(<<>>, FALSE, clientIsWaitingForChats,
                             Conn("close", reason,
                                  status \o sendToFrontend(clientSocket,
                                               Envelope("connection_failed", "", "", <<>>, <<>>)),
                                  <<>>, FALSE))

\* handleConnectionUpdate({connection: 'open'}), lines 737-759, up to the
\* list it caches: with conversations in the store loadInitialChats (lines
\* 1060-1100) caches the store's list and serves a waiting consumer; with
\* none the first-login download is announced and waits for history.
ConnectionOpen ==
    /\ sock # "null"
    /\ baileysConnectionStatus' = "open"
    /\ reconnectAttempts' = 0
    /\ UNCHANGED <<sock, clientSocket, clients, authDir, timers>>
    /\ LET ready == sendToFrontend(clientSocket, Envelope("baileys_ready", "", "", <<>>, <<>>))
                    \o sendToFrontend(clientSocket,
                          Envelope("connection_status", "open", "", <<>>, <<>>))
       IN \E dbChats \in getChats(Db, DefaultLimit) :
            IF Len(dbChats) = 0
            THEN CommitSession(initialChatsPayload, hasPayload, clientIsWaitingForChats,
                    Conn("open", "",
                         ready \o sendToFrontend(clientSocket,
                                    Envelope("initial_download_started", "", "", <<>>, <<>>)),
                         <<>>, FALSE))
            ELSE CommitSession(dbChats, TRUE, FALSE,
                    Conn("open", "",
                         ready \o (IF clientIsWaitingForChats
                                   THEN sendToFrontend(clientSocket,
                                           Envelope("initial_chats", "store", "", dbChats, <<>>))
                                   ELSE <<>>),
                         <<>>, FALSE))

\* handleConnectionUpdate(update) for an update that is neither a close nor
\* an open, lines 686 and 761-764: 'connecting', or an update without a
\* `connection` field, which leaves the status undefined
ConnectionOther(connection) ==
    /\ sock # "null"
    /\ baileysConnectionStatus' = connection
    /\ UNCHANGED <<sock, clientSocket, clients, reconnectAttempts, authDir, timers>>
    /\ CommitSession(initialChatsPayload, hasPayload, clientIsWaitingForChats,
          Conn(connection, "",
               IF connection = "connecting"
               THEN sendToFrontend(clientSocket,
                       Envelope("connection_status", "connecting", "", <<>>, <<>>))
               ELSE <<>>,
               <<>>, FALSE))

\* refreshChatList(), lines 2264-2290, called at the end of
\* performComprehensiveSync (line 2105) when the sync found updates: the
\* store's list is cached and sent as chats_updated; the pending flag is
\* not read.  The sync runs in the open handler after loadInitialChats has
\* cached a list of a store that has conversations (lines 754-758).
refreshChatList ==
    /\ Connected
    /\ hasPayload
    /\ UNCHANGED sessionVars
    /\ \E dbChats \in getChats(Db, DefaultLimit) :
        /\ StoreHasChats(dbChats)
        /\ CommitSession(dbChats, TRUE, clientIsWaitingForChats,
              Conn("refresh", "",
                   sendToFrontend(clientSocket,
                       Envelope("chats_updated", "", "", dbChats, <<>>)),
                   <<>>, FALSE))

\* handleWebSocketConnection(ws), lines 168-178: a consumer connects on
\* connection w and becomes the one clientSocket refers to
handleWebSocketConnection(w) ==
    /\ ~clients[w].open
    /\ clientSocket' = "open"
    /\ clients' = [clients EXCEPT ![w].open = TRUE]
    /\ UNCHANGED <<sock, baileysConnectionStatus, reconnectAttempts, authDir, timers>>
    /\ CommitSession(initialChatsPayload, hasPayload, clientIsWaitingForChats,
          Conn("consumer", "",
               IF baileysConnectionStatus = "open"
               THEN <<Envelope("baileys_ready", "", "", <<>>, <<>>)>> ELSE <<>>,
               <<>>, FALSE))

\* ws.on('close') of connection w, lines 198-203: that consumer
\* disconnects; clientSocket is set to null whichever connection it held
ClientClose(w) ==
    /\ clients[w].open
    /\ clientSocket' = "null"
    /\ clients' = [clients EXCEPT ![w].open = FALSE]
    /\ UNCHANGED <<sock, baileysConnectionStatus, reconnectAttempts, authDir, timers>>
    /\ CommitSession(initialChatsPayload, hasPayload, FALSE,
          Conn("consumer-close", "", <<>>, <<>>, FALSE))

\* the wall clock advances
Tick ==
    /\ counters.ticks < MaxTicks
    /\ now' = now + TickMs
    /\ counters' = Bump("ticks")
    /\ UNCHANGED <<chats, messages, contacts, initialChatsPayload, hasPayload,
                   clientIsWaitingForChats, hs, lastDone, liveSeen, lastCmd, lastConn, call>>
    /\ UNCHANGED sessionVars

\* ----------------------------------------------------------------- inputs
M1 == RawMsg("m1", 1, "num", FALSE, "conversation", FALSE, "")
M2 == RawMsg("m2", 3, "num", FALSE, "conversation", FALSE, "")
M3 == RawMsg("m3", 0, "none", FALSE, "conversation", FALSE, "")
M4 == RawMsg("m4", 2, "num", TRUE, "conversation", FALSE, "")
M5 == RawMsg("", 2, "num", FALSE, "conversation", FALSE, "")
RawMsgs == {M1, M2, M3, M4}

\* the display name the upstream gives for a conversation ("" = none)
UpstreamName(jid) == IF jid = "A" THEN "Alice" ELSE ""

\* sequences without repetition, of length n, over S
RECURSIVE SeqsOf(_, _)
SeqsOf(S, n) ==
    IF n = 0 THEN {<<>>}
    ELSE UNION {{Append(q, x) : x \in S \ {q[j] : j \in 1..Len(q)}} : q \in SeqsOf(S, n - 1)}

SeqsUpTo(S, n) == UNION {SeqsOf(S, k) : k \in 0..n}

RECURSIVE CountMsgs(_)
CountMsgs(cs) == IF cs = <<>> THEN 0 ELSE Len(Head(cs).messages) + CountMsgs(Tail(cs))

\* the bulk deliveries: up to MaxChats distinct conversations, carrying up
\* to MaxMsgs messages between them
ChatEntries(jids, pool, perChat) ==
    {Chat(j, UpstreamName(j), ms) : j \in jids, ms \in SeqsUpTo(pool, perChat)}
DeliveriesOf(jids, pool, maxChats, perChat) ==
    {[chats |-> cs] : cs \in {q \in SeqsUpTo(ChatEntries(jids, pool, perChat), maxChats) :
        /\ CountMsgs(q) <= MaxMsgs
        /\ \A a, b \in 1..Len(q) : a # b => q[a].id # q[b].id}}

\* one conversation per delivery, flat messages
Deliveries == DeliveriesOf(Jids, {M1, M2, M3}, MaxChatsSeq, MaxMsgs)
NoFault == {FALSE}

\* several conversations per delivery, history wrappers among the messages
BatchDeliveries == DeliveriesOf(BatchJids, {M2, M4}, MaxChats, MaxMsgsBatch)

SentIds == {"s1"}

\* ------------------------------------------------------------------- spec
\* An established session on an empty store: the upstream socket exists and
\* has reported `open`, the consumer is connected.  Deliveries and live
\* events are emitted by the socket, commands arrive from the consumer.
Init ==
    /\ chats = <<>>
    /\ messages = {}
    /\ contacts = <<>>
    /\ initialChatsPayload = <<>>
    /\ hasPayload = FALSE
    /\ clientIsWaitingForChats = FALSE
    /\ now = StartTime
    /\ hs = [s \in Slots |-> Idle]
    /\ counters = [deliveries |-> 0, events |-> 0, ticks |-> 0, faults |-> 0,
                   commands |-> 0, calls |-> 0]
    /\ lastDone = NoDone
    /\ liveSeen = {}
    /\ sock = "socket"
    /\ clientSocket = "open"
    /\ clients = [w \in Conns |-> [NoClient EXCEPT !.open = (w = 1)]]
    /\ baileysConnectionStatus = "open"
    /\ reconnectAttempts = 0
    /\ authDir = TRUE
    /\ timers = <<>>
    /\ lastCmd = NoCmd
    /\ lastConn = NoConn
    /\ call = NoCall

\* One invocation of handleHistorySet at a time, interleaved at its awaits
\* with live events, send_message commands and the clock.
Next ==
    \/ \E item \in Deliveries : HistoryStart(1, item)
    \/ HistoryInfo(1, NoFault)
    \/ HistorySaveChat(1, NoFault)
    \/ HistorySaveContact(1, NoFault)
    \/ HistoryBaseline(1, NoFault)
    \/ HistorySaveMessage(1, NoFault)
    \/ HistorySync(1, NoFault)
    \/ \E msg \in {M1, M2}, jid \in Jids, type \in {"notify"} :
            handleMessagesUpsert(UpsertEvent(<<msg>>, jid, type), NoFault)
    \/ \E to \in Jids, sentId \in SentIds :
            handleSendMessage(SendData(to, "hi"), sentId, NoFault)
    \/ Tick

Spec == Init /\ [][Next]_vars

\* Deliveries of several conversations, one invocation at a time, where
\* store operations may fail.
NextBatch ==
    \/ \E item \in BatchDeliveries : HistoryStart(1, item)
    \/ HistoryInfo(1, BOOLEAN)
    \/ HistorySaveChat(1, BOOLEAN)
    \/ HistorySaveContact(1, BOOLEAN)
    \/ HistoryBaseline(1, BOOLEAN)
    \/ HistorySaveMessage(1, BOOLEAN)
    \/ HistorySync(1, BOOLEAN)
    \/ Tick

SpecBatch == Init /\ [][NextBatch]_vars

\* The state after initializeBackend has set up the store and the consumer
\* gateway: no socket, no consumer, and its call of connectToWhatsApp still
\* to run; the credential directory may be left from an earlier run.
InitBoot ==
    /\ chats = <<>>
    /\ messages = {}
    /\ contacts = <<>>
    /\ initialChatsPayload = <<>>
    /\ hasPayload = FALSE
    /\ clientIsWaitingForChats = FALSE
    /\ now = StartTime
    /\ hs = [s \in Slots |-> Idle]
    /\ counters = [deliveries |-> 0, events |-> 0, ticks |-> 0, faults |-> 0,
                   commands |-> 0, calls |-> 0]
    /\ lastDone = NoDone
    /\ liveSeen = {}
    /\ sock = "null"
    /\ clientSocket = "null"
    /\ clients = [w \in Conns |-> NoClient]
    /\ baileysConnectionStatus = "closed"
    /\ reconnectAttempts = 0
    /\ authDir \in BOOLEAN
    /\ timers = <<0>>
    /\ lastCmd = NoCmd
    /\ lastConn = NoConn
    /\ call = NoCall

\* handleConnectionUpdate(update), lines 670-770
handleConnectionUpdate(connection, reason, rmFails) ==
    \/ connection = "close" /\ ConnectionClose(reason, rmFails)
    \/ connection = "open" /\ reason = "" /\ ~rmFails /\ ConnectionOpen
    \/ connection \notin {"close", "open"} /\ reason = "" /\ ~rmFails
          /\ ConnectionOther(connection)

\* the `connection` values of an update ("undefined": the field is absent)
Connections == {"close", "open", "connecting", "undefined"}
\* why the upstream closed: lastDisconnect's status code is loggedOut or not
CloseReasons == {"", "loggedOut", "connectionLost"}

\* The life of the upstream session and of the consumer connection, on an
\* empty store.
NextConn ==
    \/ \E k \in 1..MaxTimers, ok \in BOOLEAN : connectToWhatsApp(k, ok)
    \/ \E connection \in Connections, reason \in CloseReasons, rmFails \in BOOLEAN :
            handleConnectionUpdate(connection, reason, rmFails)
    \/ handleWebSocketConnection(1)
    \/ ClientClose(1)

SpecConn == InitBoot /\ [][NextConn]_vars

\* the data of the commands the consumer sends
HistoryData(jid, limit, offset) ==
    [NoData EXCEPT !.present = TRUE, !.jid = jid, !.limit = limit, !.offset = offset]
SendDatas == {NoData, SendData("A", "hi"), SendData("A", ""), SendData("", "hi")}
HistoryDatas ==
    {NoData} \cup {HistoryData(jid, limit, offset) :
                     jid \in {"A", ""}, limit \in {NULL, 1}, offset \in {NULL, 1}}
ContactDatas == {NoData, HistoryData("A", NULL, NULL), HistoryData("", NULL, NULL)}
UnknownTypes == {"bogus", ""}
FetchedResults ==
    {Fetched(TRUE, <<>>), Fetched(FALSE, <<>>), Fetched(FALSE, <<M1>>),
     Fetched(FALSE, <<M2, M1>>)}
GatewayDeliveries ==
    {[chats |-> <<Chat("A", UpstreamName("A"), list)>>] : list \in {<<M1>>, <<M2, M1>>, <<M4>>}}

\* The state once initializeBackend's connectToWhatsApp has made the
\* socket: the upstream has reported nothing yet, no consumer is connected.
InitGateway ==
    /\ chats = <<>>
    /\ messages = {}
    /\ contacts = <<>>
    /\ initialChatsPayload = <<>>
    /\ hasPayload = FALSE
    /\ clientIsWaitingForChats = FALSE
    /\ now = StartTime
    /\ hs = [s \in Slots |-> Idle]
    /\ counters = [deliveries |-> 0, events |-> 0, ticks |-> 0, faults |-> 0,
                   commands |-> 0, calls |-> 0]
    /\ lastDone = NoDone
    /\ liveSeen = {}
    /\ sock = "socket"
    /\ clientSocket = "null"
    /\ clients = [w \in Conns |-> NoClient]
    /\ baileysConnectionStatus = "closed"
    /\ reconnectAttempts = 0
    /\ authDir = TRUE
    /\ timers = <<>>
    /\ lastCmd = NoCmd
    /\ lastConn = NoConn
    /\ call = NoCall

\* The consumer's commands, interleaved with bulk deliveries and with the
\* upstream session opening and closing.
NextGateway ==
    \/ \E connection \in {"close", "open", "undefined"}, reason \in {"", "connectionLost"} :
            handleConnectionUpdate(connection, reason, FALSE)
    \/ handleWebSocketConnection(1)
    \/ ClientClose(1)
    \/ handleGetInitialChats
    \/ \E data \in SendDatas, sentId \in SentIds : handleSendMessage(data, sentId, NoFault)
    \/ \E data \in HistoryDatas, fetched \in FetchedResults :
            handleGetMessageHistory(data, fetched)
    \/ handleSyncContacts
    \/ \E data \in ContactDatas : handleGetContactInfo(data)
    \/ \E type \in {"typing_start", "typing_stop"}, data \in {NoData, SendData("A", "")} :
            handleTyping(type, data)
    \/ handleHealthCheck
    \/ \E type \in UnknownTypes : UnknownCommand(type)
    \/ \E item \in GatewayDeliveries : counters.deliveries < MaxGatewayDeliveries /\ HistoryStart(1, item)
    \/ HistoryInfo(1, NoFault)
    \/ HistorySaveChat(1, NoFault)
    \/ HistorySaveContact(1, NoFault)
    \/ HistoryBaseline(1, NoFault)
    \/ HistorySaveMessage(1, NoFault)
    \/ HistorySync(1, NoFault)

SpecGateway == InitGateway /\ [][NextGateway]_vars

\* The backend at rest on an empty store, with no upstream socket and no
\* consumer: the state in which a function is called on its own.
AtRest ==
    /\ chats = <<>>
    /\ messages = {}
    /\ contacts = <<>>
    /\ initialChatsPayload = <<>>
    /\ hasPayload = FALSE
    /\ clientIsWaitingForChats = FALSE
    /\ now = StartTime
    /\ hs = [s \in Slots |-> Idle]
    /\ counters = [deliveries |-> 0, events |-> 0, ticks |-> 0, faults |-> 0,
                   commands |-> 0, calls |-> 0]
    /\ lastDone = NoDone
    /\ liveSeen = {}
    /\ sock = "null"
    /\ clientSocket = "null"
    /\ clients = [w \in Conns |-> NoClient]
    /\ baileysConnectionStatus = "closed"
    /\ reconnectAttempts = 0
    /\ authDir = TRUE
    /\ timers = <<>>
    /\ lastCmd = NoCmd
    /\ lastConn = NoConn

\* nothing but `call` changes
OnlyCall ==
    UNCHANGED <<chats, messages, contacts, initialChatsPayload, hasPayload,
                clientIsWaitingForChats, now, hs, counters, lastDone, liveSeen,
                lastCmd, lastConn, sessionVars>>

\* the formats of a timestamp and the places of a message it can sit in:
\* "flat" {messageTimestamp}, "nested" {message: {messageTimestamp}}, and
\* "both", where the top-level field holds another instant
TimestampFormats == {"num", "str", "long"}
MessageShapes == {"flat", "nested", "both"}

\* a call of getMessageTimestamp for the instant s (epoch seconds)
TimestampCall(s, fmt, shape) ==
    [fn |-> "getMessageTimestamp", s |-> s, fmt |-> fmt, shape |-> shape,
     top |-> CASE shape = "flat" -> TimestampValue(s, fmt)
               [] shape = "nested" -> Undefined
               [] shape = "both" -> Num(s + 1),
     inner |-> IF shape = "flat" THEN Undefined ELSE TimestampValue(s, fmt),
     done |-> FALSE, result |-> NULL]

InitTimestamp ==
    /\ AtRest
    /\ call \in {TimestampCall(s, fmt, shape) :
                    s \in 0..MaxSeconds, fmt \in TimestampFormats, shape \in MessageShapes}

\* getMessageTimestamp(msg) returns
getMessageTimestampReturns ==
    /\ call.fn = "getMessageTimestamp"
    /\ ~call.done
    /\ call' = [call EXCEPT !.done = TRUE,
                            !.result = NormalizeTimestamp(call.top, call.inner, now)]
    /\ OnlyCall

NextTimestamp == getMessageTimestampReturns

SpecTimestamp == InitTimestamp /\ [][NextTimestamp]_vars

\* The outcome of a store method called on its own.
CommitCall(db, c) ==
    /\ counters.calls < MaxStoreCalls
    /\ counters' = Bump("calls")
    /\ chats' = db.chats
    /\ messages' = db.messages
    /\ contacts' = db.contacts
    /\ call' = c
    /\ UNCHANGED <<initialChatsPayload, hasPayload, clientIsWaitingForChats, now, hs,
                   lastDone, liveSeen, lastCmd, lastConn, sessionVars>>

\* the record of a store method's call
StoreCall(fn, jid, timestamp, result) ==
    [fn |-> fn, jid |-> jid, timestamp |-> timestamp, result |-> result]

\* await database.saveChat(jid, name, lastMessageId, timestamp)
saveChatCall(jid, timestamp) ==
    CommitCall(saveChat(Db, jid, "Test Contact", "msg123", timestamp, NullStr, "text", NullStr),
               StoreCall("saveChat", jid, timestamp, TRUE))

\* await database.setChatHistoryBaseline(jid, timestamp)
setChatHistoryBaselineCall(jid, timestamp) ==
    CommitCall(setChatHistoryBaseline(Db, jid, timestamp),
               StoreCall("setChatHistoryBaseline", jid, timestamp, RowUpdated(Db, jid)))

\* await database.updateChatSyncTimestamp(jid, timestamp)
updateChatSyncTimestampCall(jid, timestamp) ==
    CommitCall(updateChatSyncTimestamp(Db, jid, timestamp),
               StoreCall("updateChatSyncTimestamp", jid, timestamp, RowUpdated(Db, jid)))

\* await database.saveMessage(id, jid, fromMe, content, timestamp, 'text',
\* status, senderName, 'test-session'); the result is whether it resolved
saveMessageCall(id, jid, fromMe, timestamp, senderName) ==
    IF saveMessageFails(Db, jid, timestamp)
    THEN CommitCall(Db, StoreCall("saveMessage", jid, timestamp, FALSE))
    ELSE CommitCall(saveMessage(Db, id, jid, fromMe, "Test message content", timestamp,
                                "text", IF fromMe THEN "sent" ELSE "received",
                                senderName, Session("test-session", NULL)),
                    StoreCall("saveMessage", jid, timestamp, TRUE))

\* the conversations and the instants (epoch ms) of SpecStore
StoreJids == {"A", "B"}
StoreTimes == {1000, 2000}

InitStore == AtRest /\ call = NoCall

\* The store's methods called in any order, as test-progressive-history.js
\* and the handlers call them.
NextStore ==
    \/ \E jid \in StoreJids, t \in StoreTimes : saveChatCall(jid, t)
    \/ \E jid \in StoreJids, t \in StoreTimes : setChatHistoryBaselineCall(jid, t)
    \/ \E jid \in StoreJids, t \in StoreTimes : updateChatSyncTimestampCall(jid, t)
    \/ \E jid \in StoreJids, fromMe \in BOOLEAN, t \in StoreTimes, name \in {NullStr, "Test Sender"} :
            saveMessageCall("msg123", jid, fromMe, t, name)

SpecStore == InitStore /\ [][NextStore]_vars

\* deliveries of one conversation with up to MaxMsgsSave messages, one of
\* them without a key id
SaveDeliveries ==
    {[chats |-> <<Chat("A", UpstreamName("A"), ms)>>] : ms \in SeqsUpTo({M1, M2, M5}, MaxMsgsSave)}

\* One invocation of handleHistorySet at a time, where a message's store
\* write may fail inside saveMessagesFromHistory.
NextSave ==
    \/ \E item \in SaveDeliveries : HistoryStart(1, item)
    \/ HistoryInfo(1, NoFault)
    \/ HistorySaveChat(1, NoFault)
    \/ HistorySaveContact(1, NoFault)
    \/ HistoryBaseline(1, NoFault)
    \/ HistorySaveMessage(1, BOOLEAN)
    \/ HistorySync(1, NoFault)

SpecSave == Init /\ [][NextSave]_vars

\* The deliveries of one sync wave: the upstream flags the last one with
\* isLatest.  The n-th delivery of a wave of MaxDeliveries deliveries:
WaveDeliveries(n) ==
    {[chats |-> item.chats, isLatest |-> (n = MaxDeliveries)] :
        item \in DeliveriesOf(Jids, {M1}, MaxChats, 1)}

\* One sync wave delivered to an established session on an empty store,
\* while the consumer may ask for the conversation list.
NextWave ==
    \/ \E item \in WaveDeliveries(counters.deliveries + 1) : HistoryStart(1, item)
    \/ HistoryInfo(1, NoFault)
    \/ HistorySaveChat(1, NoFault)
    \/ HistorySaveContact(1, NoFault)
    \/ HistoryBaseline(1, NoFault)
    \/ HistorySaveMessage(1, NoFault)
    \/ HistorySync(1, NoFault)
    \/ handleGetInitialChats

SpecWave == Init /\ [][NextWave]_vars

\* sock.ev.on('messaging-history.set', handleHistorySet), line 637: the
\* emitter calls the async handler for each event and does not wait for
\* the promise it returns, so a second delivery starts while the first is
\* at an await.  Each slot is one invocation in flight.
NextConcurrent ==
    \/ \E s \in Slots, item \in DeliveriesOf(Jids, {M1}, MaxChatsSeq, 1) : HistoryStart(s, item)
    \/ \E s \in Slots : HistoryInfo(s, NoFault)
    \/ \E s \in Slots : HistorySaveChat(s, NoFault)
    \/ \E s \in Slots : HistorySaveContact(s, NoFault)
    \/ \E s \in Slots : HistoryBaseline(s, NoFault)
    \/ \E s \in Slots : HistorySaveMessage(s, NoFault)
    \/ \E s \in Slots : HistorySync(s, NoFault)

SpecConcurrent == Init /\ [][NextConcurrent]_vars

\* Live events on a store that bulk deliveries fill: events of up to
\* MaxLiveMsgs messages, of both upsert types, for a conversation that has
\* a row ("A", once delivered) and for one that has none; the write and
\* the contact lookup may fail.
LiveMsgs ==
    {RawMsg("l1", 5, "num", FALSE, "conversation", FALSE, "Bob"),
     RawMsg("l2", 6, "str", FALSE, "imageMessage", FALSE, ""),
     RawMsg("l3", 7, "num", FALSE, "none", FALSE, ""),
     RawMsg("l4", 8, "num", FALSE, "conversation", TRUE, "")}
LiveEvents ==
    {UpsertEvent(q, jid, type) :
        q \in SeqsUpTo(LiveMsgs, MaxLiveMsgs), jid \in Jids, type \in {"notify", "append"}}

NextLive ==
    \/ \E item \in DeliveriesOf({"A"}, {M1}, MaxChatsSeq, 1) : HistoryStart(1, item)
    \/ HistoryInfo(1, NoFault)
    \/ HistorySaveChat(1, NoFault)
    \/ HistorySaveContact(1, NoFault)
    \/ HistoryBaseline(1, NoFault)
    \/ HistorySaveMessage(1, NoFault)
    \/ HistorySync(1, NoFault)
    \/ \E m \in LiveEvents : handleMessagesUpsert(m, BOOLEAN)

SpecLive == Init /\ [][NextLive]_vars

\* get_initial_chats, split at its await, among bulk deliveries (an empty
\* one included), the open handler's load from the store and the chat-list
\* refresh.
NextPending ==
    \/ \E item \in DeliveriesOf({"A"}, {M1}, MaxChatsSeq, 1) : HistoryStart(1, item)
    \/ HistoryInfo(1, NoFault)
    \/ HistorySaveChat(1, NoFault)
    \/ HistorySaveContact(1, NoFault)
    \/ HistoryBaseline(1, NoFault)
    \/ HistorySaveMessage(1, NoFault)
    \/ HistorySync(1, NoFault)
    \/ handleGetInitialChatsRead(1)
    \/ handleGetInitialChatsAnswer(1)
    \/ ConnectionOpen
    \/ refreshChatList

SpecPending == Init /\ [][NextPending]_vars

\* The upstream session with consumers that connect and disconnect on
\* either connection: wss.on('connection') accepts a consumer while
\* another is connected.
NextClients ==
    \/ \E k \in 1..MaxTimers, ok \in BOOLEAN : connectToWhatsApp(k, ok)
    \/ \E connection \in Connections, reason \in CloseReasons, rmFails \in BOOLEAN :
            handleConnectionUpdate(connection, reason, rmFails)
    \/ \E w \in Conns : handleWebSocketConnection(w)
    \/ \E w \in Conns : ClientClose(w)

SpecClients == InitBoot /\ [][NextClients]_vars

\* nothing but `call` and the counters changes
WaitStep(c) ==
    /\ call' = c
    /\ UNCHANGED <<chats, messages, contacts, initialChatsPayload, hasPayload,
                   clientIsWaitingForChats, now, hs, lastDone, liveSeen,
                   lastCmd, lastConn, sessionVars>>

\* waitForInitialHistory(), lines 1465-1483, with sock.store.chats =
\* storeChats: connected and with conversations in the session store it
\* goes on to save them, otherwise to checkForHistory
waitForInitialHistory(storeChats) ==
    /\ call = NoCall
    /\ counters.calls < MaxWaits
    /\ counters' = Bump("calls")
    /\ WaitStep(WaitCall(IF Connected /\ Len(storeChats) > 0 THEN "saveChat" ELSE "check",
                         storeChats))

\* lines 1485-1507: one conversation of the session store is saved; a save
\* that throws is logged and the conversation is not counted.  After the
\* last one, `processedChats.length > 0` decides between line 1512 and
\* checkForHistory.
WaitSaveChat(F) ==
    /\ call.fn = "waitForInitialHistory"
    /\ call.pc = "saveChat"
    /\ \E fail \in F :
        /\ MayFail(fail)
        /\ counters' = CountFault(fail)
        /\ UNCHANGED <<lastCmd, liveSeen>>
        /\ LET chat == call.storeChats[call.i]
               processed == call.processedChats + (IF fail THEN 0 ELSE 1)
               last == call.i = Len(call.storeChats)
               c == [call EXCEPT !.i = @ + 1, !.processedChats = processed,
                                 !.pc = IF ~last THEN "saveChat"
                                        ELSE IF processed > 0 THEN "trigger" ELSE "check"]
           IN CommitLive(IF fail THEN Db
                         ELSE saveChat(Db, chat.id, OrElseStr(chat.name, chat.id), NullStr,
                                       now, NullStr, "text", NullStr),
                         c)

\* line 1512: await handleHistorySet({ chats: chats.slice(0, 50), isLatest: true })
WaitHistoryStart ==
    /\ call.fn = "waitForInitialHistory"
    /\ call.pc = "trigger"
    /\ HistoryStart(2, [chats |-> call.storeChats])

\* checkForHistory, lines 1520-1540, called at line 1542 and by its timer:
\* it resolves when the store has a conversation or when the time counted
\* reaches maxWaitTime; a query that throws counts as no conversation.
checkForHistory(F) ==
    /\ call.fn = "waitForInitialHistory"
    /\ call.pc = "check"
    /\ \E fail \in F, dbChats \in getChats(Db, 1) :
        /\ MayFail(fail)
        /\ counters' = CountFault(fail)
        /\ LET waitTime == call.waitTime + checkInterval
           IN IF ~fail /\ Len(dbChats) > 0
              THEN WaitStep([call EXCEPT !.pc = "resolved"])
              ELSE WaitStep([call EXCEPT !.waitTime = waitTime,
                                         !.pc = IF waitTime >= maxWaitTime
                                                THEN "resolved" ELSE "check"])

\* the conversations of sock.store: none, or one without messages
WaitStoreChats == {<<>>, <<Chat("A", UpstreamName("A"), <<>>)>>}

\* waitForInitialHistory during a first login: the upstream may deliver
\* history meanwhile, and store operations may fail.
NextWait ==
    \/ \E item \in DeliveriesOf({"A"}, {M1}, MaxChatsSeq, 1) :
            counters.deliveries < MaxDeliveries - 1 /\ HistoryStart(1, item)
    \/ \E s \in Slots : HistoryInfo(s, NoFault)
    \/ \E s \in Slots : HistorySaveChat(s, NoFault)
    \/ \E s \in Slots : HistorySaveContact(s, NoFault)
    \/ \E s \in Slots : HistoryBaseline(s, NoFault)
    \/ \E s \in Slots : HistorySaveMessage(s, NoFault)
    \/ \E s \in Slots : HistorySync(s, NoFault)
    \/ \E storeChats \in WaitStoreChats : waitForInitialHistory(storeChats)
    \/ WaitSaveChat(BOOLEAN)
    \/ WaitHistoryStart
    \/ checkForHistory(BOOLEAN)

\* every pending callback of the event loop is run in the end
SpecWait == Init /\ [][NextWait]_vars /\ WF_vars(NextWait)

\* ------------------------------------------------------------- properties
Quiescent == \A s \in Slots : hs[s].pc = "idle"

\* the message has a timestamp of its own (it is not normalised to Date.now())
HasOwnTs(m) == ~(m.fmt = "none" \/ (m.fmt = "num" /\ m.ts = 0))

\* the normalised timestamps of a list of messages that all have their own
OwnTimestamps(list) == {getMessageTimestamp(list[j], 0) : j \in 1..Len(list)}

Stored(db, jid, id) == \E r \in db.messages : r.id = id /\ r.chat_jid = jid

\* the per-conversation records of every run in flight or just completed
LoggedSteps ==
    UNION {{hs[s].log[j] : j \in 1..Len(hs[s].log)} \cup
           (IF hs[s].pc \in {"info", "finish"} THEN {} ELSE {hs[s].cur})
             : s \in {t \in Slots : hs[t].pc # "idle"}}
    \cup (IF lastDone.valid THEN {lastDone.log[j] : j \in 1..Len(lastDone.log)} ELSE {})

\* C1: when the same delivery has been processed twice in succession, the
\* Message table holds exactly the rows it held after the first processing,
\* every baseline cursor is unchanged, and lastSyncTimestamp of the
\* delivered conversations is the second processing time.
C1_ReingestIdempotent ==
    (lastDone.valid /\ lastDone.first.valid) =>
        /\ messages = lastDone.first.messages
        /\ \A j \in DOMAIN lastDone.first.chats :
              /\ j \in DOMAIN chats
              /\ chats[j].history_baseline_timestamp =
                     lastDone.first.chats[j].history_baseline_timestamp
        /\ \A k \in 1..Len(lastDone.item.chats) :
              LET j == lastDone.item.chats[k].id
              IN j \in DOMAIN chats /\ chats[j].last_sync_timestamp = lastDone.currentTime

\* C2: in the step of a known conversation, every message written has a
\* normalised timestamp strictly greater than the last-sync cursor read at
\* the start of the step.
C2_OnlyNewerThanCursorWritten ==
    \A e \in LoggedSteps :
        (e.classified /\ ~e.isNew /\ e.lastSyncRead # NULL) =>
            \A w \in e.written : w.ts > e.lastSyncRead

\* C2 witness: a completed run wrote a message for a known conversation
\* whose last-sync cursor was set.
C2_Witness ==
    /\ lastDone.valid
    /\ \E j \in 1..Len(lastDone.log) :
          LET e == lastDone.log[j]
          IN e.classified /\ ~e.isNew /\ e.lastSyncRead # NULL /\ e.written # {}

\* C3: a new conversation delivered with at least one message gets the
\* minimum normalised timestamp of its delivered messages as baseline,
\* whatever their order (stated for messages that carry a timestamp).
C3_BaselineIsMinimum ==
    lastDone.valid =>
        \A k \in 1..Len(lastDone.log) :
            LET e == lastDone.log[k]
                list == lastDone.item.chats[k].messages
            IN (e.classified /\ e.isNew /\ ~e.threw /\ Len(list) > 0
                  /\ \A j \in 1..Len(list) : HasOwnTs(list[j]))
               => e.baselineSet = MinOf(OwnTimestamps(list))

\* C4: after a delivery has been processed for a known conversation,
\* history_baseline_timestamp has the value it had before.
C4_BaselineKept ==
    lastDone.valid =>
        \A k \in 1..Len(lastDone.log) :
            LET e == lastDone.log[k]
            IN (e.classified /\ ~e.isNew) =>
                 /\ e.jid \in DOMAIN chats
                 /\ chats[e.jid].history_baseline_timestamp = e.baselineRead

\* C5: from one state with no delivery in flight to the next, a
\* lastSyncTimestamp that is set is neither cleared nor decreased.
C5_SyncNeverDecreases ==
    [][(Quiescent /\ Quiescent') =>
         \A j \in DOMAIN chats :
            chats[j].last_sync_timestamp # NULL =>
               /\ j \in DOMAIN chats'
               /\ chats'[j].last_sync_timestamp # NULL
               /\ chats'[j].last_sync_timestamp >= chats[j].last_sync_timestamp]_vars

\* C6: whenever both cursors of a conversation are set,
\* lastSyncTimestamp >= historyBaselineTimestamp.
C6_SyncNotBeforeBaseline ==
    \A j \in DOMAIN chats :
        (chats[j].history_baseline_timestamp # NULL /\ chats[j].last_sync_timestamp # NULL)
            => chats[j].last_sync_timestamp >= chats[j].history_baseline_timestamp

\* C7: when a known conversation that has stored messages is delivered a
\* message newer than every stored message, that message is persisted by
\* the delivery.
C7_NewerMessagePersisted ==
    lastDone.valid =>
        \A k \in 1..Len(lastDone.log) :
            LET e == lastDone.log[k]
                list == lastDone.item.chats[k].messages
            IN (e.classified /\ ~e.isNew /\ ~e.threw /\ e.maxStored # NULL) =>
                 \A j \in 1..Len(list) :
                    (HasOwnTs(list[j]) /\ getMessageTimestamp(list[j], 0) > e.maxStored)
                       => Stored(Db, e.jid, KeyId(list[j]))

\* the messages a conversation's step is to write: all of them for a new
\* conversation, those newer than the cursor for a known one (messages
\* without an id are never written)
ExpectedIds(e, list) ==
    {KeyId(list[j]) : j \in {i \in 1..Len(list) :
        /\ TruthyStr(KeyId(list[i]))
        /\ (e.isNew \/ (HasOwnTs(list[i]) /\ getMessageTimestamp(list[i], 0) > e.cursor))}}

\* C8: when a delivery has been processed, every conversation of it whose
\* own step did not throw has been processed whether or not another
\* conversation's step threw: its row exists, its messages were written,
\* its last-sync cursor is the processing time and it is in the
\* conversation-list payload.
C8_SiblingsStillProcessed ==
    lastDone.valid =>
        \A k \in 1..Len(lastDone.item.chats) :
            /\ k <= Len(lastDone.log)
            /\ LET e == lastDone.log[k]
                   chat == lastDone.item.chats[k]
               IN (~e.threw /\ e.skipped = 0) =>
                    /\ chat.id \in DOMAIN chats
                    /\ chats[chat.id].last_sync_timestamp = lastDone.currentTime
                    /\ {w.id : w \in e.written} = ExpectedIds(e, chat.messages)
                    /\ \E p \in 1..Len(initialChatsPayload) :
                          initialChatsPayload[p].jid = chat.id

\* C8 witness: a delivery in which one conversation's step threw has been
\* processed, and a sibling conversation after it had its message written.
C8_Witness ==
    /\ lastDone.valid
    /\ \E a, b \in 1..Len(lastDone.log) :
          /\ a < b
          /\ lastDone.log[a].threw
          /\ ~lastDone.log[b].threw
          /\ lastDone.log[b].written # {}

\* C9: a message handed to the live handler and also delivered in a bulk
\* delivery that has now been processed is exactly one row.
C9_LiveAndBulkOneRow ==
    lastDone.valid =>
        \A k \in 1..Len(lastDone.item.chats) :
            LET chat == lastDone.item.chats[k]
            IN \A j \in 1..Len(chat.messages) :
                 <<chat.id, KeyId(chat.messages[j])>> \in liveSeen =>
                    Cardinality({r \in messages :
                        r.id = KeyId(chat.messages[j]) /\ r.chat_jid = chat.id}) = 1

\* C10: a step that stores a message whose id is also the id of a stored
\* message of another conversation leaves that other row in place.
C10_SameIdOtherConversationKept ==
    [][\A r \in messages :
          (\E n \in messages' \ messages : n.id = r.id /\ n.chat_jid # r.chat_jid)
             => r \in messages']_vars

\* C11: when the live handler has been handed an inbound message for a
\* conversation that had no row, a row for that conversation exists
\* afterwards and the message is stored.
C11_LiveCreatesConversation ==
    [][\A p \in liveSeen' \ liveSeen :
          p[1] \notin DOMAIN chats =>
              /\ p[1] \in DOMAIN chats'
              /\ \E r \in messages' : r.id = p[2] /\ r.chat_jid = p[1]]_vars

\* C12: no step of a bulk delivery, of the live handler or of a
\* send_message command removes a stored message row, a conversation row
\* or a contact row (the retention sweep is not among these steps).
C12_NothingRemoved ==
    [][/\ \A r \in messages :
             \E n \in messages' : n.id = r.id /\ n.chat_jid = r.chat_jid
       /\ DOMAIN chats \subseteq DOMAIN chats'
       /\ DOMAIN contacts \subseteq DOMAIN contacts']_vars

\* the types of the envelopes in a sequence of envelopes
Types(sent) == {sent[i].type : i \in 1..Len(sent)}

\* C13: when a delivery has been processed while the consumer was connected
\* and waiting for the conversation list, one initial_chats envelope that
\* has every delivered conversation was sent and the flag is cleared.  (The
\* handler never reads isLatest, so this is stated of every delivery.)
C13_WaitingConsumerServed ==
    (lastDone.valid /\ lastDone.waiting /\ lastDone.client = "open") =>
        /\ ~clientIsWaitingForChats
        /\ Len(lastDone.sent) = 1
        /\ lastDone.sent[1].type = "initial_chats"
        /\ \A k \in 1..Len(lastDone.item.chats) :
              \E p \in 1..Len(lastDone.sent[1].chats) :
                  lastDone.sent[1].chats[p].jid = lastDone.item.chats[k].id

\* the step is a close for a reason other than a logout
NonLogoutClose(c) == c.valid /\ c.connection = "close" /\ c.reason # "loggedOut"

\* C14: the attempt counter never exceeds MAX_RECONNECT_ATTEMPTS; it changes
\* only by an increment below the maximum, together with a reconnect after
\* RECONNECT_DELAY, or by a reset to 0 at an open or a logout; a non-logout
\* close below the maximum increments and schedules, and at the maximum it
\* sends connection_failed and schedules nothing.
C14_ReconnectBounded ==
    [][/\ reconnectAttempts' <= MAX_RECONNECT_ATTEMPTS
       /\ reconnectAttempts' # reconnectAttempts =>
            \/ /\ reconnectAttempts' = reconnectAttempts + 1
               /\ reconnectAttempts < MAX_RECONNECT_ATTEMPTS
               /\ lastConn'.scheduled = <<RECONNECT_DELAY>>
               /\ timers' # <<>> /\ timers'[Len(timers')] = RECONNECT_DELAY
            \/ /\ reconnectAttempts' = 0
               /\ \/ lastConn'.connection = "open"
                  \/ lastConn'.connection = "close" /\ lastConn'.reason = "loggedOut"
       /\ NonLogoutClose(lastConn') =>
            IF reconnectAttempts < MAX_RECONNECT_ATTEMPTS
            THEN /\ reconnectAttempts' = reconnectAttempts + 1
                 /\ timers' = Append(timers, RECONNECT_DELAY)
            ELSE /\ reconnectAttempts' = reconnectAttempts
                 /\ timers' = timers
                 /\ clientSocket = "open" => "connection_failed" \in Types(lastConn'.sent)]_vars

\* C14 witness: a non-logout close arrived with the counter at the maximum
\* and connection_failed reached the consumer.
C14_Witness ==
    /\ NonLogoutClose(lastConn)
    /\ lastConn.before = MAX_RECONNECT_ATTEMPTS
    /\ "connection_failed" \in Types(lastConn.sent)

\* the step is a close with the logged-out reason
LogoutClose(c) == c.valid /\ c.connection = "close" /\ c.reason = "loggedOut"

\* C15, as stated: after a logout close the credential directory is gone,
\* the counter is 0 and the new attempt is scheduled with no delay.
C15_LogoutReconnectsAtOnce ==
    LogoutClose(lastConn) =>
        /\ ~authDir
        /\ reconnectAttempts = 0
        /\ lastConn.scheduled = <<0>>

\* C15, amended: after a logout close, whatever the counter was, the
\* counter is 0, the credential directory is gone unless its removal threw,
\* and one new attempt is scheduled after the fixed logout delay, which is
\* shorter than the reconnect backoff delay.
C15_LogoutReconnectsAfterFixedDelay ==
    LogoutClose(lastConn) =>
        /\ lastConn.removed => ~authDir
        /\ reconnectAttempts = 0
        /\ lastConn.scheduled = <<LOGOUT_RECONNECT_DELAY>>
        /\ timers # <<>> /\ timers[Len(timers)] = LOGOUT_RECONNECT_DELAY
        /\ LOGOUT_RECONNECT_DELAY < RECONNECT_DELAY
        /\ "session_logout" \in Types(lastConn.sent) \/ clientSocket = "null"

\* C15 witness: a logout close arrived with the counter at the maximum and
\* the credentials were removed.
C15_Witness ==
    /\ LogoutClose(lastConn)
    /\ lastConn.before = MAX_RECONNECT_ATTEMPTS
    /\ lastConn.removed
    /\ ~authDir

\* C16: after a command of an unrecognized type exactly one envelope was
\* sent, an `error` with type unknown_command; nothing of the store or of
\* the session changed, and the consumer connection is still open for the
\* next command.
C16_UnknownCommandAnswered ==
    (lastCmd.valid /\ lastCmd.type \notin RecognizedCommands) =>
        /\ Len(lastCmd.sent) = 1
        /\ lastCmd.sent[1].type = "error"
        /\ lastCmd.sent[1].tag = "unknown_command"
        /\ lastCmd.upstream = <<>>
        /\ ProgramState = lastCmd.pre
        /\ clientSocket = "open"

\* C16 witness: the command {type: "bogus"} has been answered.
C16_Witness ==
    /\ lastCmd.valid
    /\ lastCmd.type = "bogus"
    /\ Len(lastCmd.sent) = 1

\* the upstream session was open when the command arrived
ConnectedBefore(c) == c.pre[7] # "null" /\ c.pre[9] = "open"

\* the command fails for malformed input or for a closed upstream
CommandFails(c) ==
    \/ /\ c.type = "send_message"
       /\ \/ ~c.data.present \/ ~TruthyStr(c.data.to) \/ ~TruthyStr(c.data.message)
          \/ ~ConnectedBefore(c)
    \/ c.type = "get_message_history" /\ (~c.data.present \/ ~TruthyStr(c.data.jid))
    \/ c.type = "sync_contacts" /\ ~ConnectedBefore(c)
    \/ c.type = "get_contact_info" /\ (~c.data.present \/ ~TruthyStr(c.data.jid))

\* the error envelope of the command's own subsystem
TypedError(type) ==
    CASE type = "send_message" -> "message_error"
      [] type = "get_message_history" -> "message_history_error"
      [] type = "sync_contacts" -> "sync_contacts_error"
      [] type = "get_contact_info" -> "contact_info_error"

\* C17: a send_message, get_message_history, sync_contacts or
\* get_contact_info command that fails for malformed input or a closed
\* upstream is answered with its subsystem's typed error envelope, makes no
\* upstream request, and leaves the consumer connection open.
C17_TypedErrorEnvelope ==
    (/\ lastCmd.valid
     /\ lastCmd.type \in {"send_message", "get_message_history", "sync_contacts",
                          "get_contact_info"}
     /\ CommandFails(lastCmd)) =>
        /\ Len(lastCmd.sent) = 1
        /\ lastCmd.sent[1].type = TypedError(lastCmd.type)
        /\ lastCmd.upstream = <<>>
        /\ clientSocket = "open"

\* the step handles get_initial_chats
GetInitialChats(c) == c.valid /\ c.type = "get_initial_chats"

\* C18: get_initial_chats sends the cached list when there is one;
\* otherwise the store's list when the store has a conversation; otherwise
\* it sends nothing and sets the pending flag.  No other step sets the flag.
C18_InitialChatsSource ==
    [][/\ GetInitialChats(lastCmd') =>
            IF hasPayload
            THEN /\ Len(lastCmd'.sent) = 1
                 /\ lastCmd'.sent[1].type = "initial_chats"
                 /\ lastCmd'.sent[1].chats = initialChatsPayload
                 /\ clientIsWaitingForChats' = clientIsWaitingForChats
            ELSE IF DOMAIN chats # {}
            THEN /\ Len(lastCmd'.sent) = 1
                 /\ lastCmd'.sent[1].type = "initial_chats"
                 /\ {lastCmd'.sent[1].chats[i].jid : i \in 1..Len(lastCmd'.sent[1].chats)}
                       = DOMAIN chats
                 /\ clientIsWaitingForChats' = clientIsWaitingForChats
            ELSE /\ lastCmd'.sent = <<>>
                 /\ clientIsWaitingForChats'
       /\ (~clientIsWaitingForChats /\ clientIsWaitingForChats') =>
            /\ GetInitialChats(lastCmd')
            /\ ~hasPayload
            /\ DOMAIN chats = {}]_vars

\* C18 witness: with no cached list, get_initial_chats has sent the list
\* of a store that holds a conversation.
C18_Witness ==
    /\ GetInitialChats(lastCmd)
    /\ Len(lastCmd.sent) = 1
    /\ lastCmd.sent[1].tag = "store"
    /\ Len(lastCmd.sent[1].chats) > 0

\* the messages of the message_history envelope the command sent
HistoryPage(c) == c.sent[1].messages

\* the step answered get_message_history with a message_history envelope
HistoryAnswered(c) ==
    /\ c.valid /\ c.type = "get_message_history" /\ c.data.present
    /\ Len(c.sent) = 1 /\ c.sent[1].type = "message_history"

C20_BackfillOnlyForEmptyStore ==
    (lastCmd.valid /\ lastCmd.type = "get_message_history"
       /\ lastCmd.upstream # <<>>) =>
        /\ \A m \in lastCmd.pre[2] : m.chat_jid # lastCmd.data.jid
        /\ ConnectedBefore(lastCmd)
        /\ Len(lastCmd.sent) = 1
        /\ lastCmd.sent[1].type = "message_history"

\* C21: for the instant of s epoch seconds getMessageTimestamp returns
\* s * 1000, whether the timestamp is a number, a decimal string or a
\* {low, high} object, and whether it sits at the top level or one level
\* down (where the nested one is used).
C21_TimestampNormalized ==
    (call.fn = "getMessageTimestamp" /\ call.done) => call.result = call.s * MsPerSecond

\* the cursors getChatHistoryInfo(jid) returns from the store db
Cursors(db, jid) ==
    <<getChatHistoryInfo(db, jid).history_baseline_timestamp,
      getChatHistoryInfo(db, jid).last_sync_timestamp>>

\* C22: on a conversation row that exists, setChatHistoryBaseline(jid, b)
\* and updateChatSyncTimestamp(jid, s) report success and getChatHistoryInfo
\* then returns the written cursor beside the untouched other one; a
\* saveMessage leaves the cursors of every conversation as they were.
C22_CursorsWrittenAndKept ==
    [][/\ (call'.fn = "setChatHistoryBaseline" /\ call'.jid \in DOMAIN chats) =>
            /\ call'.result
            /\ Cursors(Db', call'.jid) = <<call'.timestamp, Cursors(Db, call'.jid)[2]>>
       /\ (call'.fn = "updateChatSyncTimestamp" /\ call'.jid \in DOMAIN chats) =>
            /\ call'.result
            /\ Cursors(Db', call'.jid) = <<Cursors(Db, call'.jid)[1], call'.timestamp>>
       /\ call'.fn = "saveMessage" =>
            /\ DOMAIN chats' = DOMAIN chats
            /\ \A jid \in DOMAIN chats : Cursors(Db', jid) = Cursors(Db, jid)]_vars

\* C22 witness: a message has been saved for a conversation whose baseline
\* and last-sync cursors had both been written, and both are still there.
C22_Witness ==
    /\ call.fn = "saveMessage" /\ call.result
    /\ \E m \in messages : m.chat_jid = call.jid
    /\ Cursors(Db, call.jid) = <<1000, 2000>>

\* the messages of list with the newest timestamp, every message of list
\* carrying one
MostRecent(list) ==
    {i \in 1..Len(list) : \A j \in 1..Len(list) : list[j].ts <= list[i].ts}

\* the summary columns of row are those of the delivered message msg
SummaryOf(row, msg, jid) ==
    /\ row.last_message_id = KeyId(msg)
    /\ row.last_message_timestamp = msg.ts * MsPerSecond
    /\ row.last_message_type = getMessageType(msg)
    /\ row.last_message_from = IF msg.fromMe THEN "me" ELSE jid

\* C23: after a delivery has been processed with no other handler running
\* in between, every conversation of it whose step did not throw and that
\* carried messages (each with a timestamp) has, as its stored summary,
\* the id, timestamp, type and sender of its most recent delivered message.
C23_SummaryIsMostRecent ==
    (lastDone.valid /\ lastDone.clean) =>
        \A k \in 1..Len(lastDone.item.chats) :
            LET chat == lastDone.item.chats[k] IN
            (/\ ~lastDone.log[k].threw
             /\ Len(chat.messages) > 0
             /\ \A i \in 1..Len(chat.messages) : chat.messages[i].fmt # "none") =>
                /\ chat.id \in DOMAIN chats
                /\ \E i \in MostRecent(chat.messages) :
                        SummaryOf(chats[chat.id], chat.messages[i], chat.id)

\* C24: after a delivery has been processed, every conversation of it
\* whose step did not throw, new or known, with or without messages, has
\* last_sync_timestamp equal to the processing time of that delivery.
C24_SyncIsProcessingTime ==
    lastDone.valid =>
        \A k \in 1..Len(lastDone.item.chats) :
            ~lastDone.log[k].threw =>
                /\ lastDone.item.chats[k].id \in DOMAIN chats
                /\ chats[lastDone.item.chats[k].id].last_sync_timestamp = lastDone.currentTime

\* C24 witness: a delivery holding a known conversation without messages
\* has been processed while the clock advanced, and that conversation's
\* last_sync_timestamp is the time taken when the processing began.
C24_Witness ==
    /\ lastDone.valid
    /\ now > lastDone.currentTime
    /\ \E k \in 1..Len(lastDone.item.chats) :
          /\ ~lastDone.log[k].threw
          /\ ~lastDone.log[k].isNew
          /\ Len(lastDone.item.chats[k].messages) = 0
          /\ chats[lastDone.item.chats[k].id].last_sync_timestamp = lastDone.currentTime

\* the list handed to saveMessagesFromHistory for conversation chat, as the
\* step recorded in entry classified it
Attempted(chat, entry) ==
    IF entry.isNew THEN chat.messages ELSE FilterNewer(chat.messages, entry.cursor, 0)

\* the key ids among the messages of list
IdsOf(list) == {KeyId(list[i]) : i \in {j \in 1..Len(list) : TruthyStr(KeyId(list[j]))}}

\* C25: when store writes of messages fail inside saveMessagesFromHistory
\* the function does not throw (the conversation's step completes); every
\* message of the list is either saved or counted as skipped; the count
\* returned is the number of messages written; and every message with an
\* id whose write did not fail is written.
C25_FailedWriteSkipped ==
    lastDone.valid =>
        \A k \in 1..Len(lastDone.item.chats) :
            LET entry == lastDone.log[k]
                list == Attempted(lastDone.item.chats[k], entry)
            IN /\ ~entry.threw
               /\ entry.synced
               /\ entry.saved + entry.skipped = Len(list)
               /\ entry.saved = Cardinality(entry.written)
               /\ {w.id : w \in entry.written} \subseteq IdsOf(list)
               /\ entry.saved >= Cardinality(IdsOf(list)) - counters.faults

\* C25 witness: of three messages the first one's write failed, the second
\* had no id, and the third was still written: one saved, two skipped.
C25_Witness ==
    /\ lastDone.valid
    /\ counters.faults = 1
    /\ lastDone.item.chats[1].messages = <<M1, M5, M2>>
    /\ lastDone.log[1].saved = 1
    /\ lastDone.log[1].skipped = 2
    /\ \E r \in messages : r.id = "m2" /\ r.chat_jid = "A"
    /\ \A r \in messages : r.id # "m1"

\* C26: a delivery that is not flagged as the final one of its wave, once
\* processed, has not replaced the cached conversation list, has sent no
\* initial_chats and has not cleared the pending flag.
C26_NonFinalLeavesCache ==
    [][(lastDone'.valid /\ lastDone' # lastDone /\ ~lastDone'.item.isLatest) =>
            /\ initialChatsPayload' = initialChatsPayload
            /\ hasPayload' = hasPayload
            /\ clientIsWaitingForChats' = clientIsWaitingForChats
            /\ lastDone'.sent = <<>>]_vars

\* the jids of a conversation list
JidsOf(list) == {list[i].jid : i \in 1..Len(list)}

\* C27: when the final delivery of a wave has been processed, the cached
\* conversation list has every conversation processed in any delivery of
\* the wave (on the store that was empty before the wave: every
\* conversation that has a row).
C27_PayloadCoversWave ==
    (lastDone.valid /\ lastDone.item.isLatest) =>
        /\ hasPayload
        /\ DOMAIN chats \subseteq JidsOf(initialChatsPayload)

\* the invocation has read the cursors of a conversation and has not yet
\* written its last-sync cursor: it is inside that conversation's step
InStep(h) == h.pc \in {"saveChat", "saveContact", "baseline", "msgs", "sync"}

\* C28: no two invocations of handleHistorySet are inside the step (read
\* the cursors, classify, write) of the same conversation at the same time.
C28_OneDeliveryPerConversation ==
    \A s, t \in Slots :
        (s # t /\ InStep(hs[s]) /\ InStep(hs[t])) => CurChat(hs[s]).id # CurChat(hs[t]).id

\* no invocation of handleHistorySet is in flight
NoDeliveryInFlight(h) == \A s \in Slots : h[s].pc = "idle"

\* C29: when, with the cache populated and no delivery in flight, a step
\* changes the stored data of a conversation (a message is sent, a live
\* message or a backfill is persisted), the list get_initial_chats serves
\* from then on, the cached one, has that conversation with a last-message
\* time not before the stored one.
C29_CacheNotOlderThanStore ==
    [][(/\ hasPayload /\ hasPayload'
        /\ NoDeliveryInFlight(hs) /\ NoDeliveryInFlight(hs')) =>
            \A jid \in DOMAIN chats' :
                (jid \notin DOMAIN chats \/ chats'[jid] # chats[jid]) =>
                    \E i \in 1..Len(initialChatsPayload') :
                        /\ initialChatsPayload'[i].jid = jid
                        /\ initialChatsPayload'[i].timestamp >=
                              chats'[jid].last_message_timestamp]_vars

\* the conversation lists the step that has just run sent to the consumer
ListsSent ==
    {e.chats : e \in {x \in (IF lastDone.valid THEN {lastDone.sent[i] : i \in 1..Len(lastDone.sent)} ELSE {})
                            \cup (IF lastCmd.valid THEN {lastCmd.sent[i] : i \in 1..Len(lastCmd.sent)} ELSE {}) :
                        x.type = "initial_chats"}}

\* C30: in every conversation list sent to the consumer, from the cache or
\* from the store, a conversation that has a contact row is shown with the
\* contact's name and avatar.
C30_ContactOverridesName ==
    \A list \in ListsSent :
        \A i \in 1..Len(list) :
            list[i].jid \in DOMAIN contacts =>
                /\ list[i].name = contacts[list[i].jid].name
                /\ list[i].avatarBase64 = contacts[list[i].jid].avatar_base64

\* the run of handleMessagesUpsert that has just happened, its first
\* message and the row the store holds for it
LiveDone == call.fn = "handleMessagesUpsert"
LiveRows(msg) == {r \in messages : r.id = KeyId(msg) /\ r.chat_jid = call.m.jid}

\* C31: a live inbound message that is written is stored with its
\* normalized epoch-millisecond timestamp and its decoded kind, and the
\* newMessage notification carries those same two values.
C31_LiveStoredAsNotified ==
    (LiveDone /\ call.written) =>
        LET msg == call.m.messages[1]
        IN /\ \A r \in LiveRows(msg) :
                /\ r.timestamp = getMessageTimestamp(msg, now)
                /\ r.message_type = getMessageType(msg)
           /\ \A i \in 1..Len(call.sent) :
                /\ call.sent[i].timestamp = getMessageTimestamp(msg, now)
                /\ call.sent[i].messageType = getMessageType(msg)

\* C32: every stored message carries one of the three provenance tags
\* (initial sync, progressive sync, real-time); none is stored without one.
C32_EveryMessageTagged ==
    \A r \in messages :
        r.collection_session.kind \in {"initial-sync", "progressive-sync", "real-time"}

\* C33: a conversation that a delivery finds without a baseline has a
\* baseline cursor once that delivery has been processed, whatever
\* messages it carried; and history_complete is never set.
C33_BaselinedAndNeverComplete ==
    /\ (lastDone.valid /\ lastDone.clean) =>
           \A k \in 1..Len(lastDone.log) :
               LET e == lastDone.log[k]
               IN (e.classified /\ e.isNew /\ ~e.threw) =>
                    /\ e.jid \in DOMAIN chats
                    /\ chats[e.jid].history_baseline_timestamp # NULL
    /\ \A jid \in DOMAIN chats : chats[jid].history_complete = 0

\* C34: the pending flag is true only while no conversation list is
\* cached: no consumer is left waiting while a payload is cached.
C34_WaitingOnlyWithoutPayload == clientIsWaitingForChats => ~hasPayload

\* C35: while a consumer connection is open, clientSocket refers to an open
\* connection, and a connection update is announced to the consumer.
C35_OpenConsumerIsReached ==
    (\E w \in Conns : clients[w].open) =>
        /\ clientSocket = "open"
        /\ (lastConn.valid /\ lastConn.connection \in {"open", "connecting", "close"})
              => "connection_status" \in Types(lastConn.sent)

\* C36: a send_message that succeeds for a conversation that has a row
\* leaves its display name, its two cursors, its unread counter and its
\* stored messages as they were, and the sent message is in the store.
C36_SendKeepsConversation ==
    (/\ lastCmd.valid
     /\ lastCmd.type = "send_message"
     /\ "message_sent" \in Types(lastCmd.sent)
     /\ lastCmd.data.to \in DOMAIN lastCmd.pre[1]) =>
        LET to == lastCmd.data.to
            before == lastCmd.pre[1][to]
        IN /\ to \in DOMAIN chats
           /\ chats[to].name = before.name
           /\ chats[to].history_baseline_timestamp = before.history_baseline_timestamp
           /\ chats[to].last_sync_timestamp = before.last_sync_timestamp
           /\ chats[to].unread_count = before.unread_count
           /\ lastCmd.pre[2] \subseteq messages
           /\ \E r \in messages : r.chat_jid = to /\ r.from_me /\ r.status = "sent"

\* C37: baileysConnectionStatus is the connection state the upstream
\* reported last ('close', 'connecting' or 'open'; "closed" before any
\* report): an update without a connection field leaves it as it was.
C37_StatusIsLastReported ==
    [][/\ baileysConnectionStatus' \in {"closed", "close", "connecting", "open"}
       /\ (lastConn'.valid /\ lastConn'.connection = "undefined")
              => baileysConnectionStatus' = baileysConnectionStatus]_vars

\* C38: a call of waitForInitialHistory always resolves in the end.
C38_WaitResolves ==
    (call.fn = "waitForInitialHistory")
        ~> (call.fn = "waitForInitialHistory" /\ call.pc = "resolved")

\* C39: newMessage is sent for a live message only when its row has been
\* written, the row being in the store by then; when the write fails
\* nothing is sent, and the handler ends normally or in its own catch.
C39_NotifiedOnlyAfterWrite ==
    LiveDone =>
        /\ call.sent # <<>> =>
              /\ call.written
              /\ \E r \in LiveRows(call.m.messages[1]) :
                    r.collection_session.kind = "real-time"
              /\ \A i \in 1..Len(call.sent) : call.sent[i].id = KeyId(call.m.messages[1])
        /\ ~call.written => call.sent = <<>>
        /\ call.outcome \in {"done", "caught"}

C39_Witness ==
    /\ LiveDone
    /\ call.written
    /\ Len(call.sent) = 1
    /\ call.outcome = "done"

\* a message of a live event that handleMessagesUpsert's conditions accept
Displayable(msg) == ~msg.fromMe /\ TruthyStr(getDisplayMessage(msg))

\* C40: when a notify event carries several inbound messages with
\* displayable content and is handled without a failure, every one of them
\* is stored with real-time provenance and announced by its own newMessage.
C40_EveryMessageOfEvent ==
    (/\ LiveDone
     /\ call.m.type = "notify"
     /\ call.outcome = "done"
     /\ call.written
     /\ \A i \in 1..Len(call.m.messages) : Displayable(call.m.messages[i])) =>
        \A i \in 1..Len(call.m.messages) :
            /\ \E r \in LiveRows(call.m.messages[i]) :
                    r.collection_session.kind = "real-time"
            /\ \E k \in 1..Len(call.sent) : call.sent[k].id = KeyId(call.m.messages[i])

====
